---- MODULE Spec2Model ----
(***************************************************************************)
(* Model of the knowledge extraction pipeline of eion:                     *)
(*   - NumaExtractor (internal/numa/python/numa_extractor.py): the         *)
(*     reflexion loop of extract_nodes and the edge resolution of          *)
(*     extract_edges;                                                      *)
(*   - InHouseKnowledgeExtractor and EionKnowledgeService                  *)
(*     (internal/knowledge/python/knowledge_service.py);                   *)
(*   - LLMClient / OpenAIClient (internal/llm/python/llm_client.py): the   *)
(*     retry policy of a remote generate call;                             *)
(*   - ExtractionService (internal/memory/python/extraction_service.py):   *)
(*     the choice between the remote and the local backend.                *)
(* Each component has its own specification over its own variables; the    *)
(* variables of the other components stay at their idle values.            *)
(***************************************************************************)
EXTENDS Integers, Sequences, FiniteSets, TLC

VARIABLES
    \* harness of extract_edges (both extractors)
    e_pc, e_impl, e_nodes, e_cands, e_result,
    \* one run of NumaExtractor.extract_nodes followed by extract_edges
    x_pc, source, reflexion_iterations, entities_missed, custom_prompt,
    llm_response, extracted_entities, extracted_nodes, edge_nodes, requests, context,
    \* one remote generate call: LLMClient.generate_response with its retries
    r_pc, response_model, attempt_number, attempts, r_result,
    \* ExtractionService: its two clients and one extract_knowledge call
    s_pc, llm_client, numa_client, request, remote, s_calls, last_remote,
    local_result, s_error, response,
    \* EionKnowledgeService: its in-memory store, the graph database, and the
    \* add_episode call in progress
    k_pc, k_calls, uuid_count, k_episodes, k_entities, k_edges, neo_nodes, neo_rels,
    k_call, k_batch, k_last, k_before, k_args,
    \* concurrent extraction tasks sharing one NumaExtractor
    client_suspends, t_pc, semaphore, max_in_flight,
    \* EionKnowledgeService queries: calls made, ids drawn, memory, graph, last response
    q_calls, q_count, q_memory, q_episodes, q_entities, q_result,
    \* extraction_service commands: the sessions table and the last printed answer
    h_sessions, h_out,
    \* Numa pipeline: fit calls made, the texts they had, the prompt cache, the last answer
    p_runs, p_seen, p_cache, p_out,
    \* InHouseKnowledgeExtractor.extract_nodes: position, pattern matches, nodes returned
    n_pc, n_matches, n_nodes,
    \* successive extraction passes of ExtractionService._extract_with_numa: the nodes each returned
    g_passes,
    \* one NumaClient.generate_response call: position, response model, fault, completion, result
    l_pc, l_model, l_fault, l_completion, l_result, l_template,
    \* the fallback embedders: processes started, the running process's str hash, vectors returned
    m_procs, m_hash, m_out,
    \* one text ingested through the local backend: position, text, nodes and edges returned
    w_pc, w_text, w_nodes, w_edges,
    \* NumaClient / LLMClient _clean_input
    z_pc, z_input, z_content, z_again,
    \* PromptCache under direct get and add calls
    b_ops, b_cache, b_ins, b_latest, b_out

varsE == <<e_pc, e_impl, e_nodes, e_cands, e_result>>
varsX == <<x_pc, source, reflexion_iterations, entities_missed, custom_prompt,
           llm_response, extracted_entities, extracted_nodes, edge_nodes, requests,
          context>>
varsR == <<r_pc, response_model, attempt_number, attempts, r_result>>
varsS == <<s_pc, llm_client, numa_client, request, remote, s_calls, last_remote,
           local_result, s_error, response>>
varsK == <<k_pc, k_calls, uuid_count, k_episodes, k_entities, k_edges, neo_nodes,
           neo_rels, k_call, k_batch, k_last, k_before, k_args>>
varsC == <<client_suspends, t_pc, semaphore, max_in_flight>>
varsQ == <<q_calls, q_count, q_memory, q_episodes, q_entities, q_result>>
varsH == <<h_sessions, h_out>>
varsP == <<p_runs, p_seen, p_cache, p_out>>
varsN == <<n_pc, n_matches, n_nodes>>
varsG == <<g_passes>>
varsL == <<l_pc, l_model, l_fault, l_completion, l_result, l_template>>
varsM == <<m_procs, m_hash, m_out>>
varsW == <<w_pc, w_text, w_nodes, w_edges>>
varsZ == <<z_pc, z_input, z_content, z_again>>
varsB == <<b_ops, b_cache, b_ins, b_latest, b_out>>
vars == <<varsE, varsX, varsR, varsS, varsK, varsC, varsQ, varsH, varsP, varsN, varsG, varsL, varsM, varsW, varsZ, varsB>>

\* what an action of one component leaves alone: the other components
othersE == <<varsX, varsR, varsS, varsK, varsC, varsQ, varsH, varsP, varsN, varsG, varsL, varsM, varsW, varsZ, varsB>>
othersX == <<varsE, varsR, varsS, varsK, varsC, varsQ, varsH, varsP, varsN, varsG, varsL, varsM, varsW, varsZ, varsB>>
othersR == <<varsE, varsX, varsS, varsK, varsC, varsQ, varsH, varsP, varsN, varsG, varsL, varsM, varsW, varsZ, varsB>>
othersS == <<varsE, varsX, varsR, varsK, varsC, varsQ, varsH, varsP, varsN, varsG, varsL, varsM, varsW, varsZ, varsB>>
othersK == <<varsE, varsX, varsR, varsS, varsC, varsQ, varsH, varsP, varsN, varsG, varsL, varsM, varsW, varsZ, varsB>>
othersC == <<varsE, varsX, varsR, varsS, varsK, varsQ, varsH, varsP, varsN, varsG, varsL, varsM, varsW, varsZ, varsB>>
othersQ == <<varsE, varsX, varsR, varsS, varsK, varsC, varsH, varsP, varsN, varsG, varsL, varsM, varsW, varsZ, varsB>>
othersH == <<varsE, varsX, varsR, varsS, varsK, varsC, varsQ, varsP, varsN, varsG, varsL, varsM, varsW, varsZ, varsB>>
othersP == <<varsE, varsX, varsR, varsS, varsK, varsC, varsQ, varsH, varsN, varsG, varsL, varsM, varsW, varsZ, varsB>>
othersN == <<varsE, varsX, varsR, varsS, varsK, varsC, varsQ, varsH, varsP, varsG, varsL, varsM, varsW, varsZ, varsB>>
othersG == <<varsE, varsX, varsR, varsS, varsK, varsC, varsQ, varsH, varsP, varsN, varsL, varsM, varsW, varsZ, varsB>>
othersL == <<varsE, varsX, varsR, varsS, varsK, varsC, varsQ, varsH, varsP, varsN, varsG, varsM, varsW, varsZ, varsB>>
othersM == <<varsE, varsX, varsR, varsS, varsK, varsC, varsQ, varsH, varsP, varsN, varsG, varsL, varsW, varsZ, varsB>>
othersW == <<varsE, varsX, varsR, varsS, varsK, varsC, varsQ, varsH, varsP, varsN, varsG, varsL, varsM, varsZ, varsB>>
othersZ == <<varsE, varsX, varsR, varsS, varsK, varsC, varsQ, varsH, varsP, varsN, varsG, varsL, varsM, varsW, varsB>>
othersB == <<varsE, varsX, varsR, varsS, varsK, varsC, varsQ, varsH, varsP, varsN, varsG, varsL, varsM, varsW, varsZ>>
othersSH == <<varsE, varsX, varsR, varsK, varsC, varsQ, varsP, varsN, varsG, varsL, varsM, varsW, varsZ, varsB>>

----------------------------------------------------------------------------
(* Bounds of the model *)

\* longest list of entity candidates one backend answer holds
MaxEnt == 2
\* longest list of edge candidates one backend answer holds (extract_edges harness)
MaxCand == 2
\* longest list of edge candidates in a pipeline run
MaxPipeCand == 1
\* longest list of missed entities one reflexion answer holds
MaxMissed == 1

(* Program constants *)
MAX_REFLEXION_ITERATIONS == 3

----------------------------------------------------------------------------
(* Values *)

\* dict.get(key) of a missing key, and Python's None
None == <<>>

\* entity names a backend may return: empty, whitespace only, and two real names
EntityNames == {"", " ", "A", "B"}
\* names an edge candidate may carry: the real names and one no entity has
CandidateNames == {"A", "B", "C"}
MissedNames == {"A"}
RelationTypes == {"works_at"}
GroupIds == {"g1"}

\* str.strip() on the names of the model
Strip(name) ==
    IF name \in {"", " "} THEN "" ELSE name

\* all sequences over S of length at most n
SeqsUpTo(S, n) ==
    UNION {[1..k -> S] : k \in 0..n}

ExtractedEdge ==
    [source_name : CandidateNames, target_name : CandidateNames,
     relation_type : RelationTypes]

\* the ids of this model: NumaExtractor's f"{group_id}-{i}" is <<group, i>>,
\* its f"{group_id}-edge-{i}" is <<group, "edge", i>>, a uuid4 is <<"uuid4", n>>
NumaNodeUuid(group_id, i) ==
    <<group_id, i>>

NumaEdgeUuid(group_id, i) ==
    <<group_id, "edge", i>>

Uuid4_Fixed(n) ==
    <<"uuid4", 0>>

Uuid4(n) ==
    <<"uuid4", n>>

\* truth value of an id or None in a Python condition: None and "" are false,
\* and every id above is a non-empty string
Truthy(u) ==
    u /= None

Names(nodes) ==
    {nodes[i].name : i \in DOMAIN nodes}

\* the largest element of a non-empty set of integers
MaxOf(S) ==
    CHOOSE m \in S : \A k \in S : k <= m

\* {node.name: f(node) for node in nodes}: the last node of a name wins
LastIndex(nodes, name) ==
    MaxOf({i \in DOMAIN nodes : nodes[i].name = name})

DictGet(d, key) ==
    IF key \in DOMAIN d THEN d[key] ELSE None

----------------------------------------------------------------------------
(* The idle values of each component's variables *)

IdleE ==
    /\ e_pc = "idle"
    /\ e_impl = "numa"
    /\ e_nodes = <<>>
    /\ e_cands = <<>>
    /\ e_result = None

IdleX ==
    /\ x_pc = "idle"
    /\ source = "message"
    /\ reflexion_iterations = 0
    /\ entities_missed = TRUE
    /\ custom_prompt = <<>>
    /\ llm_response = <<>>
    /\ extracted_entities = <<>>
    /\ extracted_nodes = <<>>
    /\ edge_nodes = <<>>
    /\ requests = <<>>
    /\ context = [custom_prompt |-> <<>>]

IdleR ==
    /\ r_pc = "idle"
    /\ response_model = TRUE
    /\ attempt_number = 0
    /\ attempts = <<>>
    /\ r_result = None

IdleS ==
    /\ s_pc = "idle"
    /\ llm_client = "None"
    /\ numa_client = "NumaClient"
    /\ request = None
    /\ remote = None
    /\ s_calls = <<>>
    /\ last_remote = None
    /\ local_result = None
    /\ s_error = "None"
    /\ response = None

IdleK ==
    /\ k_pc = "none"
    /\ k_calls = 0
    /\ uuid_count = 0
    /\ k_episodes = <<>>
    /\ k_entities = <<>>
    /\ k_edges = <<>>
    /\ neo_nodes = {}
    /\ neo_rels = {}
    /\ k_call = None
    /\ k_batch = <<>>
    /\ k_last = "none"
    /\ k_before = None
    /\ k_args = None

IdleC ==
    /\ client_suspends = FALSE
    /\ t_pc = <<>>
    /\ semaphore = 0
    /\ max_in_flight = 0

IdleQ ==
    /\ q_calls = 0
    /\ q_count = 0
    /\ q_memory = <<>>
    /\ q_episodes = {}
    /\ q_entities = {}
    /\ q_result = [op |-> "none"]

IdleH ==
    /\ h_sessions = {}
    /\ h_out = [cmd |-> "none"]

IdleP ==
    /\ p_runs = 0
    /\ p_seen = {}
    /\ p_cache = <<>>
    /\ p_out = [op |-> "none"]

IdleN ==
    /\ n_pc = "idle"
    /\ n_matches = <<>>
    /\ n_nodes = <<>>

IdleG ==
    /\ g_passes = <<>>

IdleL ==
    /\ l_pc = "idle"
    /\ l_model = "None"
    /\ l_fault = "none"
    /\ l_completion = [entities |-> <<>>, relations |-> <<>>]
    /\ l_result = [raised |-> FALSE, key |-> "none", items |-> <<>>]
    /\ l_template = "none"

IdleM ==
    /\ m_procs = 0
    /\ m_hash = <<>>
    /\ m_out = {}

IdleW ==
    /\ w_pc = "idle"
    /\ w_text = <<>>
    /\ w_nodes = <<>>
    /\ w_edges = <<>>

IdleZ ==
    /\ z_pc = "idle"
    /\ z_input = <<>>
    /\ z_content = <<>>
    /\ z_again = <<>>

IdleB ==
    /\ b_ops = 0
    /\ b_cache = <<>>
    /\ b_ins = {}
    /\ b_latest = {}
    /\ b_out = [op |-> "none"]

----------------------------------------------------------------------------
(* NumaExtractor.extract_edges *)

Numa_NotEnoughNodes_Off(nodes) ==
    Len(nodes) < 1

Numa_NotEnoughNodes_Three(nodes) ==
    Len(nodes) < 3

Numa_NotEnoughNodes(nodes) ==
    Len(nodes) < 2

node_name_to_uuid(nodes) ==
    [name \in Names(nodes) |-> nodes[LastIndex(nodes, name)].uuid]

Numa_KeepEdge_NoSelfCheck(source_uuid, target_uuid) ==
    Truthy(source_uuid) /\ Truthy(target_uuid)

Numa_KeepEdge(source_uuid, target_uuid) ==
    Truthy(source_uuid) /\ Truthy(target_uuid) /\ source_uuid /= target_uuid

RECURSIVE Numa_ConvertEdges(_, _, _, _)
Numa_ConvertEdges(extracted_edges, map, group_id, acc) ==
    IF extracted_edges = <<>> THEN acc
    ELSE LET extracted_edge == Head(extracted_edges)
             source_uuid == DictGet(map, extracted_edge.source_name)
             target_uuid == DictGet(map, extracted_edge.target_name)
             edge_node == [uuid |-> NumaEdgeUuid(group_id, Len(acc)),
                           source_node_uuid |-> source_uuid,
                           target_node_uuid |-> target_uuid,
                           relation_type |-> extracted_edge.relation_type,
                           group_id |-> group_id]
         IN Numa_ConvertEdges(Tail(extracted_edges), map, group_id,
                IF Numa_KeepEdge(source_uuid, target_uuid)
                THEN Append(acc, edge_node) ELSE acc)

\* the result of one call: the edges returned, the extracted-edges requests sent
\* to the backend, and whether the call raised
Numa_extract_edges(nodes, group_id, answer) ==
    IF Numa_NotEnoughNodes(nodes)
    THEN [edges |-> <<>>, requests |-> 0, raised |-> FALSE]
    ELSE [edges |-> Numa_ConvertEdges(answer, node_name_to_uuid(nodes), group_id, <<>>),
          requests |-> 1, raised |-> FALSE]

----------------------------------------------------------------------------
(* InHouseKnowledgeExtractor.extract_edges *)

InHouse_NotEnoughNodes_Off(nodes) ==
    Len(nodes) < 1

InHouse_NotEnoughNodes(nodes) ==
    Len(nodes) < 2

node_map(nodes) ==
    [name \in Names(nodes) |-> nodes[LastIndex(nodes, name)]]

InHouse_KeepEdge(source_name, target_name, map) ==
    source_name \in DOMAIN map /\ target_name \in DOMAIN map

\* base: the number of uuid4 values drawn before the call
RECURSIVE InHouse_ConvertEdges(_, _, _, _, _)
InHouse_ConvertEdges(extracted_edges, map, group_id, base, acc) ==
    IF extracted_edges = <<>> THEN acc
    ELSE LET edge_data == Head(extracted_edges)
             source_name == edge_data.source_name
             target_name == edge_data.target_name
         IN InHouse_ConvertEdges(Tail(extracted_edges), map, group_id, base,
                IF InHouse_KeepEdge(source_name, target_name, map)
                THEN Append(acc,
                        [uuid |-> Uuid4(base + Len(acc)),
                         source_node_uuid |-> map[source_name].uuid,
                         target_node_uuid |-> map[target_name].uuid,
                         relation_type |-> edge_data.relation_type,
                         group_id |-> group_id])
                ELSE acc)

InHouse_extract_edges(nodes, group_id, answer, base) ==
    IF InHouse_NotEnoughNodes(nodes)
    THEN [edges |-> <<>>, requests |-> 0, raised |-> FALSE]
    ELSE [edges |-> InHouse_ConvertEdges(answer, node_map(nodes), group_id, base, <<>>),
          requests |-> 1, raised |-> FALSE]

----------------------------------------------------------------------------
(* Entity nodes as the two extractors build them from a list of names *)

NumaNodes(names, group_id) ==
    [i \in 1..Len(names) |->
        [uuid |-> NumaNodeUuid(group_id, i - 1), name |-> names[i],
         group_id |-> group_id]]

InHouseNodes(names, group_id, base) ==
    [i \in 1..Len(names) |->
        [uuid |-> Uuid4(base + i - 1), name |-> names[i], group_id |-> group_id]]

----------------------------------------------------------------------------
(* Harness of extract_edges: the inputs are drawn by Init, one call applies the  *)
(* extractor chosen by e_impl.                                                  *)

InitE ==
    /\ IdleX
    /\ IdleR
    /\ IdleS
    /\ IdleK
    /\ IdleC
    /\ IdleQ
    /\ IdleH
    /\ IdleP
    /\ IdleN
    /\ IdleG
    /\ IdleL
    /\ IdleM
    /\ IdleW
    /\ IdleZ
    /\ IdleB
    /\ e_pc = "ready"
    /\ e_impl \in {"numa", "inhouse"}
    /\ \E names \in SeqsUpTo(EntityNames, MaxEnt), g \in GroupIds :
          e_nodes = IF e_impl = "numa" THEN NumaNodes(names, g)
                    ELSE InHouseNodes(names, g, 0)
    /\ e_cands \in SeqsUpTo(ExtractedEdge, MaxCand)
    /\ e_result = None

ExtractEdgesCall ==
    /\ e_pc = "ready"
    /\ e_result' = IF e_impl = "numa"
                   THEN Numa_extract_edges(e_nodes, "g1", e_cands)
                   ELSE InHouse_extract_edges(e_nodes, "g1", e_cands, Len(e_nodes))
    /\ e_pc' = "returned"
    /\ UNCHANGED <<e_impl, e_nodes, e_cands>>
    /\ UNCHANGED othersE

SpecEdges ==
    InitE /\ [][ExtractEdgesCall]_vars

----------------------------------------------------------------------------
(* NumaExtractor.extract_nodes: the reflexion loop, one action per backend      *)
(* request (each await), followed by extract_edges as _extract_with_numa calls  *)
(* it.  requests is the sequence of requests the backend has received, context  *)
(* the dict the prompts are made from.  A custom prompt is kept as the list of  *)
(* names it asks for, the empty custom prompt '' as the empty list.             *)

EpisodeType_WithNote ==
    {"message", "text", "json", "conversation", "note"}

EpisodeType == {"message", "text", "json", "conversation"}

\* the entity candidates of the model carry a name
ExtractedEntity ==
    [name : EntityNames]

\* the branches of the loop body that send an extracted-entities request
SendsExtract(src) ==
    src \in {"message", "text", "json"}

\* while entities_missed and reflexion_iterations <= MAX_REFLEXION_ITERATIONS
LoopContinues_IgnoringMissed(missed, iterations) ==
    iterations <= MAX_REFLEXION_ITERATIONS

LoopContinues(missed, iterations) ==
    missed /\ iterations <= MAX_REFLEXION_ITERATIONS

\* if reflexion_iterations < MAX_REFLEXION_ITERATIONS (after the increment)
ReflexionDue(iterations) ==
    iterations < MAX_REFLEXION_ITERATIONS

\* [entity for entity in extracted_entities if entity.name.strip()]
RECURSIVE filtered_extracted_entities(_)
filtered_extracted_entities_Off(entities) ==
    entities

filtered_extracted_entities(entities) ==
    IF entities = <<>> THEN <<>>
    ELSE IF Strip(Head(entities).name) /= ""
         THEN <<Head(entities)>> \o filtered_extracted_entities(Tail(entities))
         ELSE filtered_extracted_entities(Tail(entities))

EntityNodesOf(entities, group_id) ==
    NumaNodes([i \in 1..Len(entities) |-> entities[i].name], group_id)

\* the state of extract_nodes when it reaches the while loop for the first time
InitX ==
    /\ IdleE
    /\ IdleR
    /\ IdleS
    /\ IdleK
    /\ IdleC
    /\ IdleQ
    /\ IdleH
    /\ IdleP
    /\ IdleN
    /\ IdleG
    /\ IdleL
    /\ IdleM
    /\ IdleW
    /\ IdleZ
    /\ IdleB
    /\ x_pc = "while"
    /\ source \in EpisodeType
    /\ reflexion_iterations = 0
    /\ entities_missed = TRUE
    /\ custom_prompt = <<>>
    /\ llm_response = <<>>
    /\ extracted_entities = <<>>
    /\ extracted_nodes = <<>>
    /\ edge_nodes = <<>>
    /\ requests = <<>>
    /\ context = [custom_prompt |-> <<>>]

\* one pass of the loop body up to the reflexion request: the extracted-entities
\* request of the episode's source kind, the conversion of the answer, the increment
ExtractStep ==
    /\ x_pc = "while"
    /\ LoopContinues(entities_missed, reflexion_iterations)
    /\ \E answer \in (IF SendsExtract(source) THEN SeqsUpTo(ExtractedEntity, MaxEnt)
                      ELSE {llm_response}) :
          /\ llm_response' = answer
          /\ extracted_entities' = answer
    /\ requests' = IF SendsExtract(source)
                   THEN Append(requests, [kind |-> "extracted_entities",
                                          iteration |-> reflexion_iterations,
                                          custom_prompt |-> context.custom_prompt])
                   ELSE requests
    /\ reflexion_iterations' = reflexion_iterations + 1
    /\ x_pc' = IF ReflexionDue(reflexion_iterations') THEN "reflect" ELSE "while"
    /\ UNCHANGED <<source, entities_missed, custom_prompt, extracted_nodes, edge_nodes,
                   context>>
    /\ UNCHANGED othersX

\* _extract_nodes_reflexion and the rest of the loop body
ReflectStep ==
    /\ x_pc = "reflect"
    /\ \E missing_entities \in SeqsUpTo(MissedNames, MaxMissed) :
          /\ entities_missed' = (Len(missing_entities) /= 0)
          /\ custom_prompt' = missing_entities
          /\ requests' = Append(requests, [kind |-> "missed_entities",
                                           iteration |-> reflexion_iterations,
                                           answer |-> missing_entities])
    /\ x_pc' = "while"
    /\ UNCHANGED <<source, reflexion_iterations, llm_response, extracted_entities,
                   extracted_nodes, edge_nodes, context>>
    /\ UNCHANGED othersX

\* the loop ends: the candidates are filtered and turned into entity nodes
ReturnNodes ==
    /\ x_pc = "while"
    /\ ~LoopContinues(entities_missed, reflexion_iterations)
    /\ extracted_nodes' =
          EntityNodesOf(filtered_extracted_entities(extracted_entities), "g1")
    /\ x_pc' = "nodes_returned"
    /\ UNCHANGED <<source, reflexion_iterations, entities_missed, custom_prompt,
                   llm_response, extracted_entities, edge_nodes, requests, context>>
    /\ UNCHANGED othersX

\* extract_edges on the nodes just returned
ExtractEdgesStep ==
    /\ x_pc = "nodes_returned"
    /\ \E answer \in (IF Numa_NotEnoughNodes(extracted_nodes) THEN {<<>>}
                      ELSE SeqsUpTo(ExtractedEdge, MaxPipeCand)) :
          LET result == Numa_extract_edges(extracted_nodes, "g1", answer)
          IN /\ edge_nodes' = result.edges
             /\ requests' = IF result.requests = 1
                            THEN Append(requests, [kind |-> "extracted_edges",
                                                   iteration |-> reflexion_iterations])
                            ELSE requests
    /\ x_pc' = "done"
    /\ UNCHANGED <<source, reflexion_iterations, entities_missed, custom_prompt,
                   llm_response, extracted_entities, extracted_nodes, context>>
    /\ UNCHANGED othersX

NextX ==
    \/ ExtractStep
    \/ ReflectStep
    \/ ReturnNodes
    \/ ExtractEdgesStep

SpecExtractor ==
    InitX /\ [][NextX]_vars

\* the number of requests of one kind received by the backend
CountKind(log, kind) ==
    Cardinality({i \in DOMAIN log : log[i].kind = kind})

----------------------------------------------------------------------------
(* LLMClient.generate_response: one remote call, one action per attempt of      *)
(* OpenAIClient._generate_response under tenacity's retry decorator.  The wait  *)
(* between two attempts takes time and changes no state.                       *)

\* HTTP status codes of the model
StatusCodes == {200, 400, 404, 429, 499, 500, 503, 599}

\* bodies of a 200 response: not JSON at all; JSON without "choices"; a message
\* content that is no JSON; a message content that is JSON (two payloads)
Bodies == {"not_json", "no_choices", "content_text", "content_json_1", "content_json_2"}

\* what the transport gives one attempt: a request error (connection failure,
\* timeout: httpx.RequestError) or a response
RawOutcomes ==
    {[kind |-> "request_error", status_code |-> 0, body |-> "none"]}
    \cup {[kind |-> "response", status_code |-> c, body |-> "none"] :
             c \in StatusCodes \ {200}}
    \cup {[kind |-> "response", status_code |-> 200, body |-> b] : b \in Bodies}

Exception(type, status_code) ==
    [ok |-> FALSE, type |-> type, status_code |-> status_code, value |-> "none"]

Returned(value) ==
    [ok |-> TRUE, type |-> "none", status_code |-> 0, value |-> value]

\* OpenAIClient._generate_response on one transport outcome
OpenAI_generate_response(raw, with_model) ==
    IF raw.kind = "request_error" THEN Exception("RuntimeError", 0)
    ELSE IF raw.status_code = 429 THEN Exception("RateLimitError", 0)
    ELSE IF raw.status_code /= 200 THEN Exception("HTTPStatusError", raw.status_code)
    ELSE IF raw.body = "not_json" THEN Exception("JSONDecodeError", 0)
    ELSE IF raw.body = "no_choices" THEN Exception("KeyError", 0)
    ELSE IF raw.body = "content_text"
         THEN (IF with_model THEN Exception("JSONDecodeError", 0)
               ELSE Returned("content_text"))
    ELSE Returned(raw.body)

is_server_or_retry_error_4xx(exception) ==
    \/ exception.type \in {"RateLimitError", "JSONDecodeError"}
    \/ exception.type = "HTTPStatusError"
         /\ 400 <= exception.status_code /\ exception.status_code < 600

is_server_or_retry_error(exception) ==
    \/ exception.type \in {"RateLimitError", "JSONDecodeError"}
    \/ exception.type = "HTTPStatusError"
         /\ 500 <= exception.status_code /\ exception.status_code < 600

stop_after_attempt_3(n) ==
    n >= 3

stop_after_attempt_5(n) ==
    n >= 5

\* stop=stop_after_attempt(4)
stop_after_attempt(n) ==
    n >= 4

\* the state of generate_response when it calls _generate_response_with_retry
InitR ==
    /\ IdleE
    /\ IdleX
    /\ IdleS
    /\ IdleK
    /\ IdleC
    /\ IdleQ
    /\ IdleH
    /\ IdleP
    /\ IdleN
    /\ IdleG
    /\ IdleL
    /\ IdleM
    /\ IdleW
    /\ IdleZ
    /\ IdleB
    /\ r_pc = "calling"
    /\ response_model \in BOOLEAN
    /\ attempt_number = 0
    /\ attempts = <<>>
    /\ r_result = None

\* tenacity's decision after attempt n: return the result, raise an error that
\* is not to be retried, raise the last error when the attempts are used up
\* (reraise=True), or go on to the next attempt
TenacityDecision(outcome, n) ==
    IF outcome.ok THEN "returned"
    ELSE IF ~is_server_or_retry_error(outcome) THEN "raised"
    ELSE IF stop_after_attempt(n) THEN "raised"
    ELSE "calling"

\* one attempt of _generate_response_with_retry
Attempt ==
    /\ r_pc = "calling"
    /\ \E raw \in RawOutcomes :
          LET outcome == OpenAI_generate_response(raw, response_model)
              n == attempt_number + 1
          IN /\ attempts' = Append(attempts, raw)
             /\ attempt_number' = n
             /\ r_pc' = TenacityDecision(outcome, n)
             /\ r_result' = IF r_pc' = "calling" THEN r_result ELSE outcome
    /\ UNCHANGED response_model
    /\ UNCHANGED othersR

SpecRetry ==
    InitR /\ [][Attempt]_vars

----------------------------------------------------------------------------
(* ExtractionService: the two clients after construction and one              *)
(* extract_knowledge call, one action per backend request (each await).       *)
(* s_calls is the sequence of backend requests made for the call, last_remote *)
(* the remote request that raised.                                            *)
(* The remote extractor, internal/knowledge/python/knowledge_extractor.py, is *)
(* not among the sources: its steps are those of the orchestrator of the      *)
(* specification (section 4.3), each of its backend requests being one        *)
(* generate_response call with the retries modelled above.                    *)

\* longest run of attempts drawn for one remote request
MaxRunLen == 4

\* transport outcomes drawn for the attempts of a remote request: a timeout or
\* connection failure, a 5xx, a 4xx, and a well-formed answer
SvcRawOutcomes ==
    {[kind |-> "request_error", status_code |-> 0, body |-> "none"],
     [kind |-> "response", status_code |-> 503, body |-> "none"],
     [kind |-> "response", status_code |-> 400, body |-> "none"],
     [kind |-> "response", status_code |-> 200, body |-> "content_json_1"]}

\* answers of a backend in the service model
SvcEntityAnswers ==
    {<<>>, <<[name |-> "A"], [name |-> "B"]>>}

SvcEdgeAnswers ==
    {<<>>, <<[source_name |-> "A", target_name |-> "B", relation_type |-> "works_at"]>>}

\* request.use_numa is Optional[bool]; timestamps_ok tells whether every
\* timestamp of request.previous_episodes is accepted by datetime.fromisoformat
ExtractionRequest ==
    [group_id : GroupIds, use_numa : {"None", "True", "False"},
     timestamps_ok : BOOLEAN]

\* tenacity after the first n attempts of raws: "calling" when attempt n + 1 is
\* due, "returned" or "raised" when attempt n ended the call, "over" when an
\* earlier attempt ended it
RECURSIVE RetryRun(_, _)
RetryRun(raws, n) ==
    IF n = 0 THEN "calling"
    ELSE IF RetryRun(raws, n - 1) /= "calling" THEN "over"
    ELSE TenacityDecision(OpenAI_generate_response(raws[n], TRUE), n)

\* the attempt sequences of one whole generate_response call
CompleteRuns ==
    {raws \in SeqsUpTo(SvcRawOutcomes, MaxRunLen) :
        RetryRun(raws, Len(raws)) \in {"returned", "raised"}}

\* what generate_response gives its caller at the end of a run
RunOutcome(raws) ==
    OpenAI_generate_response(raws[Len(raws)], TRUE)

\* use_numa = request.use_numa or self.llm_client is None
UseNuma_IgnoresFlag(req) ==
    llm_client = "None"

UseNuma(req) ==
    req.use_numa = "True" \/ llm_client = "None"

\* if not use_numa and self.llm_client
LLMSelected(req) ==
    ~UseNuma(req) /\ llm_client /= "None"

\* except Exception around _extract_with_llm: log, then go on to the fallback
LLMFailureHandler_Propagate ==
    "except"

LLMFailureHandler ==
    "fallback"

\* if self.numa_client
NumaAvailable_OnlyIfAsked ==
    numa_client /= "None" /\ UseNuma(request)

NumaAvailable ==
    numa_client /= "None"

\* _convert_previous_episodes raises ValueError on a timestamp it cannot parse
ConversionRaises(req) ==
    ~req.timestamps_ok

\* the remote extractor when _extract_with_llm calls extract_nodes
RemoteStart ==
    [phase |-> "Extract", cycles |-> 0, entities |-> <<>>, nodes |-> <<>>,
     edges |-> <<>>]

\* the phase after the reflexion loop: edge extraction needs two entities
RemoteAfterLoop(nodes) ==
    IF Len(nodes) < 2 THEN "Done" ELSE "Edges"

\* the remote extractor after the answer to the request of its phase
RemoteAdvance(r, group_id, entity_answer, missed, edge_answer) ==
    IF r.phase = "Extract"
    THEN [r EXCEPT !.phase = "Reflect", !.cycles = r.cycles + 1,
                   !.entities = entity_answer]
    ELSE IF r.phase = "Reflect"
    THEN IF missed /\ r.cycles < MAX_REFLEXION_ITERATIONS
         THEN [r EXCEPT !.phase = "Extract"]
         ELSE LET nodes == EntityNodesOf(filtered_extracted_entities(r.entities),
                                         group_id)
              IN [r EXCEPT !.phase = RemoteAfterLoop(nodes), !.nodes = nodes]
    ELSE [r EXCEPT !.phase = "Done",
                   !.edges = Numa_ConvertEdges(edge_answer, node_name_to_uuid(r.nodes),
                                               group_id, <<>>)]

\* _extract_with_numa past the conversions: NumaExtractor on the local backend
LocalResults(group_id) ==
    {[nodes |-> EntityNodesOf(filtered_extracted_entities(entity_answer), group_id),
      edges |-> Numa_extract_edges(
                    EntityNodesOf(filtered_extracted_entities(entity_answer), group_id),
                    group_id, edge_answer).edges] :
        entity_answer \in SvcEntityAnswers, edge_answer \in SvcEdgeAnswers}

\* error: Optional[str] = None
ExtractionResponse_NoError(success, nodes, edges, error) ==
    [success |-> success, extracted_nodes |-> nodes, extracted_edges |-> edges,
     error |-> "None"]

ExtractionResponse(success, nodes, edges, error) ==
    [success |-> success, extracted_nodes |-> nodes, extracted_edges |-> edges,
     error |-> error]

\* the response _extract_with_numa builds from what its extractor returned
extract_with_numa_Response_RemoteNodes(result) ==
    ExtractionResponse(TRUE, IF remote /= None THEN remote.nodes ELSE result.nodes,
                       result.edges, "None")

extract_with_numa_Response(result) ==
    ExtractionResponse(TRUE, result.nodes, result.edges, "None")

\* ExtractionService() returned: _initialize_clients raises when neither client
\* could be constructed
InitS ==
    /\ IdleE
    /\ IdleX
    /\ IdleR
    /\ IdleK
    /\ IdleC
    /\ IdleQ
    /\ IdleH
    /\ IdleP
    /\ IdleN
    /\ IdleG
    /\ IdleL
    /\ IdleM
    /\ IdleW
    /\ IdleZ
    /\ IdleB
    /\ s_pc = "ready"
    /\ llm_client \in {"OpenAIClient", "None"}
    /\ numa_client \in {"NumaClient", "None"}
    /\ ~(llm_client = "None" /\ numa_client = "None")
    /\ request = None
    /\ remote = None
    /\ s_calls = <<>>
    /\ last_remote = None
    /\ local_result = None
    /\ s_error = "None"
    /\ response = None

\* extract_knowledge up to its first await: the choice of the backend and, for
\* the remote one, the conversions of _extract_with_llm
ExtractKnowledge ==
    /\ s_pc = "ready"
    /\ \E req \in ExtractionRequest :
          /\ request' = req
          /\ IF LLMSelected(req)
             THEN IF ConversionRaises(req)
                  THEN /\ s_pc' = LLMFailureHandler
                       /\ remote' = remote
                  ELSE /\ s_pc' = "remote"
                       /\ remote' = RemoteStart
             ELSE /\ s_pc' = "fallback"
                  /\ remote' = remote
    /\ UNCHANGED <<llm_client, numa_client, s_calls, last_remote, local_result,
                   s_error, response>>
    /\ UNCHANGED othersS

\* one backend request of the remote extractor: a whole generate_response call
RemoteCall ==
    /\ s_pc = "remote"
    /\ remote.phase /= "Done"
    /\ \E raws \in CompleteRuns :
          LET outcome == RunOutcome(raws)
              call == [backend |-> "remote", kind |-> remote.phase]
          IN /\ s_calls' = Append(s_calls, call)
             /\ IF outcome.ok
                THEN /\ \E entity_answer \in SvcEntityAnswers, missed \in BOOLEAN,
                           edge_answer \in SvcEdgeAnswers :
                           remote' = RemoteAdvance(remote, request.group_id,
                                                   entity_answer, missed, edge_answer)
                     /\ s_pc' = "remote"
                     /\ last_remote' = last_remote
                ELSE /\ remote' = remote
                     /\ s_pc' = LLMFailureHandler
                     /\ last_remote' = [kind |-> remote.phase, attempts |-> Len(raws),
                                         outcome |-> outcome]
    /\ UNCHANGED <<llm_client, numa_client, request, local_result, s_error, response>>
    /\ UNCHANGED othersS

\* _extract_with_llm returns its response and extract_knowledge returns it
RemoteReturn ==
    /\ s_pc = "remote"
    /\ remote.phase = "Done"
    /\ response' = ExtractionResponse(TRUE, remote.nodes, remote.edges, "None")
    /\ s_pc' = "done"
    /\ UNCHANGED <<llm_client, numa_client, request, remote, s_calls, last_remote,
                   local_result, s_error>>
    /\ UNCHANGED othersS

\* the fallback: _extract_with_numa when the local client exists
Fallback ==
    /\ s_pc = "fallback"
    /\ IF NumaAvailable
       THEN IF ConversionRaises(request)
            THEN /\ s_error' = "ValueError"
                 /\ s_pc' = "except"
                 /\ UNCHANGED <<s_calls, local_result, response>>
            ELSE \E result \in LocalResults(request.group_id) :
                    /\ local_result' = result
                    /\ s_calls' = Append(s_calls,
                                         [backend |-> "local", kind |-> "Extract"])
                    /\ response' = extract_with_numa_Response(result)
                    /\ s_pc' = "done"
                    /\ s_error' = s_error
       ELSE /\ s_error' = "No extraction clients available"
            /\ s_pc' = "except"
            /\ UNCHANGED <<s_calls, local_result, response>>
    /\ UNCHANGED <<llm_client, numa_client, request, remote, last_remote>>
    /\ UNCHANGED othersS

\* the outer except Exception of extract_knowledge
OuterExcept ==
    /\ s_pc = "except"
    /\ response' = ExtractionResponse(FALSE, <<>>, <<>>, s_error)
    /\ s_pc' = "done"
    /\ UNCHANGED <<llm_client, numa_client, request, remote, s_calls, last_remote,
                   local_result, s_error>>
    /\ UNCHANGED othersS

NextS ==
    \/ ExtractKnowledge
    \/ RemoteCall
    \/ RemoteReturn
    \/ Fallback
    \/ OuterExcept

SpecSvc ==
    InitS /\ [][NextS]_vars

----------------------------------------------------------------------------
(* EionKnowledgeService.add_episode: the in-memory dictionaries and the graph *)
(* database, one action per await of the call.  _save_episode_to_neo4j runs   *)
(* its statements one by one, each committed on its own.  k_batch records,    *)
(* for every id drawn, the add_episode call that drew it, k_before the stores *)
(* as they were when the last add_episode call began, and k_args the          *)
(* arguments of that call.                                                    *)

\* add_episode calls of one behaviour
MaxEpisodes == 2

\* episode_type arguments: one EpisodeType and one value that is none
EpisodeTypeArgs == {"text", "note"}

\* group_id arguments: the default "" and a group
GroupIdArgs == {"", "g1"}

\* answers of the in-house client: the names of one answer are distinct
StoreEntityAnswers ==
    {<<>>, <<"A">>, <<"A", "B">>}

\* an edge that resolves, one with a name no entity has, one from A to A
StoreEdgeAnswers ==
    {<<>>} \cup
    {<<[source_name |-> "A", target_name |-> t, relation_type |-> "works_at"]>> :
        t \in {"A", "B", "C"}}

\* group_id or "default"
GroupOrDefault(group_id) ==
    IF group_id = "" THEN "default" ELSE group_id

\* for item in items: d[item.uuid] = item
StoreAll(d, items) ==
    LET new == {items[i].uuid : i \in DOMAIN items}
    IN [u \in DOMAIN d \cup new |->
           IF u \in new
           THEN items[MaxOf({i \in DOMAIN items : items[i].uuid = u})]
           ELSE d[u]]

StoreEntities_FirstOnly(d, nodes) ==
    IF nodes = <<>> THEN d ELSE StoreAll(d, <<Head(nodes)>>)

\* for node in extracted_nodes: self.entities[node.uuid] = node
StoreEntities(d, nodes) ==
    StoreAll(d, nodes)

\* for edge in extracted_edges: self.edges[edge.uuid] = edge
StoreEdges(d, edge_list) ==
    StoreAll(d, edge_list)

\* the ids of items, each recorded as drawn by the call
BatchAll(batch, items, call) ==
    LET new == {items[i].uuid : i \in DOMAIN items}
    IN [u \in DOMAIN batch \cup new |-> IF u \in new THEN call ELSE batch[u]]

\* the id field of a statement that has none
NoUuid ==
    <<"none", 0>>

\* the statements of _save_episode_to_neo4j in the order it runs them
Statements(episode, nodes, edge_list) ==
    <<[stmt |-> "CreateEpisode", uuid |-> episode.uuid, source |-> NoUuid,
       target |-> NoUuid]>>
    \o [i \in 1..(2 * Len(nodes)) |->
           IF i % 2 = 1
           THEN [stmt |-> "CreateEntity", uuid |-> nodes[(i + 1) \div 2].uuid,
                 source |-> NoUuid, target |-> NoUuid]
           ELSE [stmt |-> "CreateMentionedIn", uuid |-> NoUuid,
                 source |-> nodes[i \div 2].uuid, target |-> episode.uuid]]
    \o [i \in 1..Len(edge_list) |->
           [stmt |-> "CreateRelation", uuid |-> edge_list[i].uuid,
            source |-> edge_list[i].source_node_uuid,
            target |-> edge_list[i].target_node_uuid]]

\* MATCH (n:label {uuid: $uuid}) finds a node
Matches(nodes, label, uuid) ==
    [label |-> label, uuid |-> uuid] \in nodes

\* the nodes of the graph after a statement
NeoNodesAfter(nodes, s) ==
    IF s.stmt = "CreateEpisode" THEN nodes \cup {[label |-> "Episode", uuid |-> s.uuid]}
    ELSE IF s.stmt = "CreateEntity" THEN nodes \cup {[label |-> "Entity", uuid |-> s.uuid]}
    ELSE nodes

\* the relations of the graph after a statement: a CREATE after two MATCH
\* clauses creates nothing when one of them finds no node
NeoRelsAfter(nodes, rels, s) ==
    IF s.stmt = "CreateMentionedIn"
         /\ Matches(nodes, "Entity", s.source) /\ Matches(nodes, "Episode", s.target)
    THEN rels \cup {[type |-> "MENTIONED_IN", uuid |-> NoUuid, source |-> s.source,
                     target |-> s.target]}
    ELSE IF s.stmt = "CreateRelation"
              /\ Matches(nodes, "Entity", s.source) /\ Matches(nodes, "Entity", s.target)
    THEN rels \cup {[type |-> "RELATION", uuid |-> s.uuid, source |-> s.source,
                     target |-> s.target]}
    ELSE rels

\* the service after __init__ and initialize
InitK ==
    /\ IdleE
    /\ IdleX
    /\ IdleR
    /\ IdleS
    /\ IdleC
    /\ IdleQ
    /\ IdleH
    /\ IdleP
    /\ IdleN
    /\ IdleG
    /\ IdleL
    /\ IdleM
    /\ IdleW
    /\ IdleZ
    /\ IdleB
    /\ k_pc = "idle"
    /\ k_calls = 0
    /\ uuid_count = 0
    /\ k_episodes = <<>>
    /\ k_entities = <<>>
    /\ k_edges = <<>>
    /\ neo_nodes = {}
    /\ neo_rels = {}
    /\ k_call = None
    /\ k_batch = <<>>
    /\ k_last = "none"
    /\ k_before = None
    /\ k_args = None

\* self.episodes.values(): the stored episodes in the order of their insertion,
\* which is the order of their uuid4 draws
EpisodeValues(d) ==
    LET Rank(u) == Cardinality({v \in DOMAIN d : v[2] < u[2]}) + 1
    IN [i \in 1..Cardinality(DOMAIN d) |-> d[CHOOSE u \in DOMAIN d : Rank(u) = i]]

\* [ep for ep in self.episodes.values()
\*  if ep.group_id == episode.group_id and ep.uuid != episode.uuid]
previous_episodes_AnyGroup(d, episode) ==
    SelectSeq(EpisodeValues(d), LAMBDA ep : ep.uuid /= episode.uuid)

previous_episodes(d, episode) ==
    SelectSeq(EpisodeValues(d),
              LAMBDA ep : ep.group_id = episode.group_id /\ ep.uuid /= episode.uuid)

\* previous_episodes[-10:]
LastTen(s) ==
    SubSeq(s, IF Len(s) > 10 THEN Len(s) - 9 ELSE 1, Len(s))

\* the in-memory dictionaries and the graph database
Stores ==
    [episodes |-> k_episodes, entities |-> k_entities, edges |-> k_edges,
     nodes |-> neo_nodes, rels |-> neo_rels]

\* add_episode up to its first await: the episode is created and stored, and
\* the previous episodes handed to the extractor are selected;
\* EpisodeType(episode_type) raises on a value that is no episode type
AddEpisode ==
    /\ k_pc = "idle"
    /\ k_calls < MaxEpisodes
    /\ k_calls' = k_calls + 1
    /\ k_before' = Stores
    /\ \E episode_type \in EpisodeTypeArgs, group_id \in GroupIdArgs :
          /\ k_args' = [episode_type |-> episode_type]
          /\ IF episode_type \notin EpisodeType
             THEN /\ k_last' = "raised"
                  /\ UNCHANGED <<k_pc, uuid_count, k_episodes, k_call, k_batch>>
             ELSE LET episode == [uuid |-> Uuid4(uuid_count),
                                  group_id |-> GroupOrDefault(group_id)]
                  IN /\ k_episodes' = StoreAll(k_episodes, <<episode>>)
                     /\ k_batch' = BatchAll(k_batch, <<episode>>, k_calls')
                     /\ uuid_count' = uuid_count + 1
                     /\ k_call' = [episode |-> episode, nodes |-> <<>>, edges |-> <<>>,
                                   pending |-> <<>>,
                                   previous |-> LastTen(previous_episodes(
                                                   StoreAll(k_episodes, <<episode>>),
                                                   episode))]
                     /\ k_pc' = "extract_nodes"
                     /\ k_last' = "running"
    /\ UNCHANGED <<k_entities, k_edges, neo_nodes, neo_rels>>
    /\ UNCHANGED othersK

\* extract_nodes returns and the entities are stored
AddEpisode_ExtractNodes ==
    /\ k_pc = "extract_nodes"
    /\ \E names \in StoreEntityAnswers :
          LET nodes == InHouseNodes(names, k_call.episode.group_id, uuid_count)
          IN /\ k_entities' = StoreEntities(k_entities, nodes)
             /\ k_batch' = BatchAll(k_batch, nodes, k_calls)
             /\ uuid_count' = uuid_count + Len(nodes)
             /\ k_call' = [k_call EXCEPT !.nodes = nodes]
    /\ k_pc' = "extract_edges"
    /\ UNCHANGED <<k_calls, k_episodes, k_edges, neo_nodes, neo_rels, k_last>>
    /\ UNCHANGED <<k_before, k_args>>
    /\ UNCHANGED othersK

\* extract_edges returns and the edges are stored
AddEpisode_ExtractEdges ==
    /\ k_pc = "extract_edges"
    /\ \E answer \in (IF InHouse_NotEnoughNodes(k_call.nodes) THEN {<<>>}
                      ELSE StoreEdgeAnswers) :
          LET result == InHouse_extract_edges(k_call.nodes, k_call.episode.group_id,
                                              answer, uuid_count)
          IN /\ k_edges' = StoreEdges(k_edges, result.edges)
             /\ k_batch' = BatchAll(k_batch, result.edges, k_calls)
             /\ uuid_count' = uuid_count + Len(result.edges)
             /\ k_call' = [k_call EXCEPT
                              !.edges = result.edges,
                              !.pending = Statements(k_call.episode, k_call.nodes,
                                                     result.edges)]
    /\ k_pc' = "save"
    /\ UNCHANGED <<k_calls, k_episodes, k_entities, neo_nodes, neo_rels, k_last>>
    /\ UNCHANGED <<k_before, k_args>>
    /\ UNCHANGED othersK

\* one statement of _save_episode_to_neo4j: it runs, or the database fails and
\* add_episode raises
AddEpisode_Neo4jRun ==
    /\ k_pc = "save"
    /\ k_call.pending /= <<>>
    /\ \E ok \in BOOLEAN :
          IF ok
          THEN LET s == Head(k_call.pending)
               IN /\ neo_nodes' = NeoNodesAfter(neo_nodes, s)
                  /\ neo_rels' = NeoRelsAfter(neo_nodes, neo_rels, s)
                  /\ k_call' = [k_call EXCEPT !.pending = Tail(k_call.pending)]
                  /\ UNCHANGED <<k_pc, k_last>>
          ELSE /\ k_pc' = "idle"
               /\ k_last' = "raised"
               /\ k_call' = None
               /\ UNCHANGED <<neo_nodes, neo_rels>>
    /\ UNCHANGED <<k_calls, uuid_count, k_episodes, k_entities, k_edges, k_batch>>
    /\ UNCHANGED <<k_before, k_args>>
    /\ UNCHANGED othersK

\* add_episode returns its counts
AddEpisode_Return ==
    /\ k_pc = "save"
    /\ k_call.pending = <<>>
    /\ k_pc' = "idle"
    /\ k_last' = "returned"
    /\ k_call' = None
    /\ UNCHANGED <<k_calls, uuid_count, k_episodes, k_entities, k_edges, neo_nodes,
                   neo_rels, k_batch>>
    /\ UNCHANGED <<k_before, k_args>>
    /\ UNCHANGED othersK

NextK ==
    \/ AddEpisode
    \/ AddEpisode_ExtractNodes
    \/ AddEpisode_ExtractEdges
    \/ AddEpisode_Neo4jRun
    \/ AddEpisode_Return

SpecStore ==
    InitK /\ [][NextK]_vars

----------------------------------------------------------------------------
(* Concurrent extract_nodes calls on one NumaExtractor, one task per call.    *)
(* A backend request is in flight from the call of generate_response to its   *)
(* return.  NumaClient.generate_response never suspends, so with it a request *)
(* starts and returns in one step of the event loop; a client whose           *)
(* generate_response awaits input or output suspends, and the event loop runs *)
(* the other tasks meanwhile.                                                 *)

\* concurrent extraction tasks
MaxTasks == 6

SEMAPHORE_LIMIT == 5

Tasks ==
    1..MaxTasks

\* the tasks whose backend request is in flight
InFlight(pc) ==
    {t \in DOMAIN pc : pc[t] = "in_flight"}

\* NumaExtractor.__init__: the semaphore is created with SEMAPHORE_LIMIT slots
InitC ==
    /\ IdleE
    /\ IdleX
    /\ IdleR
    /\ IdleS
    /\ IdleK
    /\ IdleQ
    /\ IdleH
    /\ IdleP
    /\ IdleN
    /\ IdleG
    /\ IdleL
    /\ IdleM
    /\ IdleW
    /\ IdleZ
    /\ IdleB
    /\ client_suspends \in BOOLEAN
    /\ t_pc = [t \in Tasks |-> "ready"]
    /\ semaphore = SEMAPHORE_LIMIT
    /\ max_in_flight = 0

\* extract_nodes reaches await self.numa_client.generate_response(...): the
\* request is sent without acquiring self.semaphore
BackendCallStart(t) ==
    /\ t_pc[t] = "ready"
    /\ t_pc' = [t_pc EXCEPT ![t] = IF client_suspends THEN "in_flight" ELSE "returned"]
    /\ max_in_flight' = IF Cardinality(InFlight(t_pc)) + 1 > max_in_flight
                        THEN Cardinality(InFlight(t_pc)) + 1
                        ELSE max_in_flight
    /\ UNCHANGED <<client_suspends, semaphore>>
    /\ UNCHANGED othersC

\* the answer of a suspended request arrives
BackendCallReturn(t) ==
    /\ t_pc[t] = "in_flight"
    /\ t_pc' = [t_pc EXCEPT ![t] = "returned"]
    /\ UNCHANGED <<client_suspends, semaphore, max_in_flight>>
    /\ UNCHANGED othersC

StartSomeCall ==
    \E t \in Tasks : BackendCallStart(t)

ReturnSomeCall ==
    \E t \in Tasks : BackendCallReturn(t)

NextC ==
    \/ StartSomeCall
    \/ ReturnSomeCall

SpecConcurrent ==
    InitC /\ [][NextC]_vars

----------------------------------------------------------------------------
(* EionKnowledgeService.search and get_episodes over the graph database that  *)
(* add_episode fills.  Texts are sequences of characters, so that LOWER and   *)
(* CONTAINS are computed as Cypher computes them.  add_episode is one action  *)
(* here: it stores the episode in memory and runs the first statements of     *)
(* _save_episode_to_neo4j, all of them when the database does not fail.  One  *)
(* call extracts at most one entity, so extract_edges returns no edge.  The   *)
(* clock advances between two calls, so created_at is the number of the call; *)
(* isoformat strings of UTC times are ordered as the times are.  The episodes *)
(* list of a search row is left out.                                          *)

\* add_episode calls of one behaviour
MaxStored == 2

\* the characters of the texts
Chars == {"a", "A", "b", "B"}

\* toLower of one character
toLower(c) ==
    IF c = "A" THEN "a" ELSE IF c = "B" THEN "b" ELSE c

\* LOWER(text) of Cypher
LOWER(text) ==
    [i \in DOMAIN text |-> toLower(text[i])]

\* text CONTAINS part of Cypher
CONTAINS(text, part) ==
    \E i \in 0..(Len(text) - Len(part)) : SubSeq(text, i + 1, i + Len(part)) = part

\* query arguments: texts in a case no entity has, one in no entity
QueryArgs ==
    {<<"a", "B">>, <<"b", "A">>, <<"B", "B">>}

\* group_ids arguments: None, the empty list and a list of one group
GroupIdsArgs ==
    {[null |-> TRUE, ids |-> {}], [null |-> FALSE, ids |-> {}],
     [null |-> FALSE, ids |-> {"g1"}]}

\* num_results and last_n arguments
NumResultsArgs == {1, 2}
LastNArgs == {1, 2}

\* answers of the in-house client: title-cased names, the summary a sentence
\* of the text that mentions the name
QueryEntityAnswers ==
    {<<>>,
     <<[name |-> <<"A", "b">>, summary |-> <<"A", "b">>]>>,
     <<[name |-> <<"B", "a">>, summary |-> <<"a", "B", "a">>]>>}

\* the nodes extract_nodes builds from an answer
QueryNodes(answer, group_id, base) ==
    [i \in 1..Len(answer) |->
        [uuid |-> Uuid4(base + i - 1), name |-> answer[i].name,
         summary |-> answer[i].summary, group_id |-> group_id]]

\* $group_ids IS NULL OR x.group_id IN $group_ids
GroupFilter(group_ids, group_id) ==
    group_ids.null \/ group_id \in group_ids.ids

\* LOWER(e.name) CONTAINS LOWER($query_text) OR LOWER(e.summary) CONTAINS ...
TextFilter_CaseSensitive(e, query) ==
    CONTAINS(e.name, query) \/ CONTAINS(e.summary, query)

TextFilter(e, query) ==
    CONTAINS(LOWER(e.name), LOWER(query)) \/ CONTAINS(LOWER(e.summary), LOWER(query))

\* MATCH (e:Entity) WHERE ...
SearchMatches(entities, query, group_ids) ==
    {e \in entities : GroupFilter(group_ids, e.group_id) /\ TextFilter(e, query)}

\* LIMIT n of rows in no order: the sets of rows the database may return
Limit(rows, n) ==
    {T \in SUBSET rows :
        Cardinality(T) = IF n < Cardinality(rows) THEN n ELSE Cardinality(rows)}

\* the dictionary search appends for a row
SearchRow(e) ==
    [uuid |-> e.uuid, name |-> e.name, content |-> e.summary]

\* MATCH (ep:Episode) WHERE ...
EpisodeMatches(episodes, group_ids) ==
    {ep \in episodes : GroupFilter(group_ids, ep.group_id)}

\* ORDER BY ep.created_at: rows in an order the clause allows
Ordered_Ascending(rows) ==
    \A i, j \in DOMAIN rows : i < j => rows[i].created_at <= rows[j].created_at

Ordered(rows) ==
    \A i, j \in DOMAIN rows : i < j => rows[i].created_at >= rows[j].created_at

\* ORDER BY ... LIMIT n: the first n rows of an ordering of all the rows
OrderByLimit(rows, n) ==
    LET k == IF n < Cardinality(rows) THEN n ELSE Cardinality(rows)
    IN {SubSeq(all, 1, k) :
           all \in {s \in [1..Cardinality(rows) -> rows] :
                       /\ \A i, j \in DOMAIN s : i /= j => s[i] /= s[j]
                       /\ Ordered(s)}}

\* the service after __init__ and initialize
InitQ ==
    /\ IdleE
    /\ IdleX
    /\ IdleR
    /\ IdleS
    /\ IdleK
    /\ IdleC
    /\ IdleH
    /\ IdleP
    /\ IdleN
    /\ IdleG
    /\ IdleL
    /\ IdleM
    /\ IdleW
    /\ IdleZ
    /\ IdleB
    /\ q_calls = 0
    /\ q_count = 0
    /\ q_memory = <<>>
    /\ q_episodes = {}
    /\ q_entities = {}
    /\ q_result = [op |-> "none"]

\* the statements of _save_episode_to_neo4j for an episode and its nodes
SaveStatements(episode, nodes) ==
    <<[stmt |-> "CreateEpisode", node |-> episode]>>
    \o [i \in 1..(2 * Len(nodes)) |->
           IF i % 2 = 1
           THEN [stmt |-> "CreateEntity", node |-> nodes[(i + 1) \div 2]]
           ELSE [stmt |-> "CreateMentionedIn", node |-> nodes[i \div 2]]]

\* the nodes of a label that the statements create
Created(stmts, label) ==
    {stmts[i].node : i \in {j \in DOMAIN stmts : stmts[j].stmt = label}}

\* add_episode: the episode is stored in memory, the entities are extracted,
\* and the statements run until the database fails, if it does
add_episode ==
    /\ q_calls < MaxStored
    /\ q_calls' = q_calls + 1
    /\ \E episode_type \in EpisodeTypeArgs, group_id \in GroupIdArgs,
          answer \in QueryEntityAnswers, run \in 0..3 :
          IF episode_type \notin EpisodeType
          THEN /\ q_result' = [op |-> "add_episode", raised |-> TRUE]
               /\ UNCHANGED <<q_count, q_memory, q_episodes, q_entities>>
          ELSE LET episode == [uuid |-> Uuid4(q_count),
                               group_id |-> GroupOrDefault(group_id),
                               source |-> episode_type, created_at |-> q_calls']
                   nodes == QueryNodes(answer, episode.group_id, q_count + 1)
                   stmts == SaveStatements(episode, nodes)
                   done == SubSeq(stmts, 1, IF run < Len(stmts) THEN run ELSE Len(stmts))
               IN /\ q_count' = q_count + 1 + Len(nodes)
                  /\ q_memory' = StoreAll(q_memory, <<episode>>)
                  /\ q_episodes' = q_episodes \cup Created(done, "CreateEpisode")
                  /\ q_entities' = q_entities \cup Created(done, "CreateEntity")
                  /\ q_result' = [op |-> "add_episode", raised |-> Len(done) < Len(stmts)]
    /\ UNCHANGED othersQ

\* search: the rows of the query, or the answer of the except block when the
\* embedder or the database raises
search ==
    /\ \E query \in QueryArgs, group_ids \in GroupIdsArgs,
          num_results \in NumResultsArgs, ok \in BOOLEAN :
          IF ok
          THEN \E rows \in Limit(SearchMatches(q_entities, query, group_ids), num_results) :
                  q_result' = [op |-> "search", query |-> query, group_ids |-> group_ids,
                               limit |-> num_results, failed |-> FALSE,
                               keys |-> {"results", "count"},
                               results |-> {SearchRow(e) : e \in rows},
                               count |-> Cardinality(rows)]
          ELSE q_result' = [op |-> "search", failed |-> TRUE,
                            keys |-> {"results", "count"},
                            results |-> {}, count |-> 0]
    /\ UNCHANGED <<q_calls, q_count, q_memory, q_episodes, q_entities>>
    /\ UNCHANGED othersQ

\* the dictionary get_episodes appends for a row
EpisodeRow(ep) ==
    [uuid |-> ep.uuid, group_id |-> ep.group_id,
     episode_type |-> ep.source, created_at |-> ep.created_at]

\* get_episodes: the rows of the query, or the answer of the except block
get_episodes ==
    /\ \E group_ids \in GroupIdsArgs, last_n \in LastNArgs, ok \in BOOLEAN :
          IF ok
          THEN \E rows \in OrderByLimit(EpisodeMatches(q_episodes, group_ids), last_n) :
                  q_result' = [op |-> "get_episodes", group_ids |-> group_ids,
                               limit |-> last_n, failed |-> FALSE,
                               keys |-> {"episodes", "count"},
                               episodes |-> [i \in DOMAIN rows |-> EpisodeRow(rows[i])],
                               count |-> Len(rows)]
          ELSE q_result' = [op |-> "get_episodes", failed |-> TRUE,
                            keys |-> {"episodes", "count"},
                            episodes |-> <<>>, count |-> 0]
    /\ UNCHANGED <<q_calls, q_count, q_memory, q_episodes, q_entities>>
    /\ UNCHANGED othersQ

NextQ ==
    \/ add_episode
    \/ search
    \/ get_episodes

SpecQuery ==
    InitQ /\ [][NextQ]_vars

----------------------------------------------------------------------------
(* The search and get_episodes commands of extraction_service.py.  They query *)
(* the sessions table of the relational database, which other components      *)
(* write; h_out is the JSON object a command prints together with its exit    *)
(* status.  metadata::text is a sequence of characters, ILIKE '%query%' is    *)
(* containment ignoring case for a query without wildcard characters.         *)

\* rows the sessions table may hold
MaxSessions == 3

\* the rows: two users, two metadata texts, distinct update times
SessionRows ==
    {[id |-> i,
      user_id |-> IF i % 2 = 1 THEN "g1" ELSE "g2",
      metadata |-> IF i = 3 THEN <<"B", "a">> ELSE <<"A", "b">>,
      updated_at |-> i] : i \in 1..MaxSessions}

\* args[1].split(",") if len(args) > 1 and args[1] else []
GroupIDsArgs ==
    {{}, {"g1"}, {"g1", "g2"}}

\* the database holds some sessions
InitH ==
    /\ IdleE
    /\ IdleX
    /\ IdleR
    /\ IdleS
    /\ IdleK
    /\ IdleC
    /\ IdleQ
    /\ IdleP
    /\ IdleN
    /\ IdleG
    /\ IdleL
    /\ IdleM
    /\ IdleW
    /\ IdleZ
    /\ IdleB
    /\ h_sessions \in SUBSET SessionRows
    /\ h_out = [cmd |-> "none"]

\* s.metadata::text ILIKE %s with the pattern f'%{query}%'
ILIKE(text, query) ==
    CONTAINS(LOWER(text), LOWER(query))

\* ORDER BY s.updated_at DESC LIMIT n: the table has no two equal times
OrderByUpdatedAtLimit(rows, n) ==
    LET k == IF n < Cardinality(rows) THEN n ELSE Cardinality(rows)
        all == CHOOSE s \in [1..Cardinality(rows) -> rows] :
                  \A i, j \in DOMAIN s : i < j => s[i].updated_at > s[j].updated_at
    IN SubSeq(all, 1, k)

\* the WHERE clause of the search command: group_ids does not occur in it
SearchWhere(row, query, group_ids) ==
    ILIKE(row.metadata, query)

\* the WHERE clause of the get_episodes command
EpisodesWhere(row, group_ids) ==
    group_ids /= {} => row.user_id \in group_ids

\* handle_search: too few arguments, a database failure, or the rows
handle_search ==
    /\ \E given \in BOOLEAN, query \in QueryArgs, group_ids \in GroupIDsArgs,
          num_results \in NumResultsArgs, ok \in BOOLEAN :
          h_out' =
             IF ~given
             THEN [cmd |-> "search", keys |-> {"error"}, exit |-> 1]
             ELSE IF ~ok
             THEN [cmd |-> "search", keys |-> {"results", "count", "error"},
                   results |-> <<>>, count |-> 0, exit |-> 0]
             ELSE LET rows == OrderByUpdatedAtLimit(
                                 {r \in h_sessions : SearchWhere(r, query, group_ids)},
                                 num_results)
                  IN [cmd |-> "search", keys |-> {"results", "count"},
                      query |-> query, group_ids |-> group_ids, limit |-> num_results,
                      results |-> [i \in DOMAIN rows |-> [uuid |-> rows[i].id]],
                      count |-> Len(rows), exit |-> 0]
    /\ UNCHANGED h_sessions
    /\ UNCHANGED othersH

\* handle_get_episodes: a database failure, or the rows
handle_get_episodes ==
    /\ \E group_ids \in GroupIDsArgs, last_n \in LastNArgs, ok \in BOOLEAN :
          h_out' =
             IF ~ok
             THEN [cmd |-> "get_episodes", keys |-> {"episodes", "count", "error"},
                   episodes |-> <<>>, count |-> 0, exit |-> 0]
             ELSE LET rows == OrderByUpdatedAtLimit(
                                 {r \in h_sessions : EpisodesWhere(r, group_ids)}, last_n)
                  IN [cmd |-> "get_episodes", keys |-> {"episodes", "count"},
                      group_ids |-> group_ids, limit |-> last_n,
                      episodes |-> [i \in DOMAIN rows |->
                                       [uuid |-> rows[i].id, group_id |-> rows[i].user_id,
                                        valid_at |-> rows[i].updated_at]],
                      count |-> Len(rows), exit |-> 0]
    /\ UNCHANGED h_sessions
    /\ UNCHANGED othersH

NextH ==
    \/ handle_search
    \/ handle_get_episodes

SpecCommands ==
    InitH /\ [][NextH]_vars

----------------------------------------------------------------------------
(* The add_episode command of extraction_service.py: it builds a request with *)
(* use_numa=True, awaits extract_knowledge, and prints a payload.  The steps  *)
(* of extract_knowledge are the actions of the service above; h_out is the    *)
(* JSON object the command prints together with its exit status.              *)

\* the keys of the payload of handle_add_episode
AddEpisodePayloadKeys ==
    {"episode_uuid", "episode_name", "nodes_created", "edges_created", "node_uuids",
     "edge_uuids"}

\* len(args) of the add_episode command: none, two, the three required, all five
ArgCounts == {0, 2, 3, 5}

\* if len(args) < 3
TooFewArguments(nargs) ==
    nargs < 3

\* handle_add_episode up to its await: too few arguments and the process
\* exits, or the request is built and extract_knowledge chooses its backend
handle_add_episode ==
    /\ s_pc = "ready"
    /\ h_out.cmd = "none"
    /\ \E nargs \in ArgCounts, group_id \in GroupIds :
          IF TooFewArguments(nargs)
          THEN /\ h_out' = [cmd |-> "add_episode", printed |-> TRUE,
                            keys |-> {"error"}, exit |-> 1, nargs |-> nargs]
               /\ s_pc' = "exit"
               /\ UNCHANGED <<request, remote>>
          ELSE LET req == [group_id |-> group_id, use_numa |-> "True",
                           timestamps_ok |-> TRUE]
               IN /\ h_out' = [cmd |-> "add_episode", printed |-> FALSE,
                                nargs |-> nargs]
                  /\ request' = req
                  /\ IF LLMSelected(req)
                     THEN IF ConversionRaises(req)
                          THEN /\ s_pc' = LLMFailureHandler
                               /\ remote' = remote
                          ELSE /\ s_pc' = "remote"
                               /\ remote' = RemoteStart
                     ELSE /\ s_pc' = "fallback"
                          /\ remote' = remote
    /\ UNCHANGED <<llm_client, numa_client, s_calls, last_remote, local_result,
                   s_error, response>>
    /\ UNCHANGED h_sessions
    /\ UNCHANGED othersSH

\* handle_add_episode after extract_knowledge returned: the payload is built
\* from the lists of the response and printed, and the command returns 0
handle_add_episode_Print ==
    /\ s_pc = "done"
    /\ h_out.cmd = "add_episode"
    /\ ~h_out.printed
    /\ h_out' = [cmd |-> "add_episode", printed |-> TRUE,
                 keys |-> AddEpisodePayloadKeys,
                 nodes_created |-> Len(response.extracted_nodes),
                 edges_created |-> Len(response.extracted_edges),
                 exit |-> 0, nargs |-> h_out.nargs]
    /\ UNCHANGED varsS
    /\ UNCHANGED h_sessions
    /\ UNCHANGED othersSH

\* the service process: extract_knowledge called with a request of the extract
\* command, or the add_episode command
NextA ==
    \/ ExtractKnowledge
    \/ RemoteCall
    \/ RemoteReturn
    \/ Fallback
    \/ OuterExcept
    \/ handle_add_episode
    \/ handle_add_episode_Print

SpecServiceCommands ==
    InitS /\ [][NextA]_vars

----------------------------------------------------------------------------
(* NumaClient.generate_response on the local extractor: Numa.fit renders the  *)
(* prompt, Pipeline._get_output_from_cache_or_model answers from the prompt   *)
(* cache or runs LocalExtractor and caches its answer.  A text is a sequence  *)
(* of words, a prompt the words of the template around the text.  The cache   *)
(* is a dictionary in insertion order, keyed by the md5 of the prompt, which  *)
(* is taken to have no collision among the prompts of the model.              *)

\* fit calls of one behaviour
MaxRuns == 4

\* PromptCache.cache_size of the model
CacheSize == 2

\* texts of the messages: a proper noun, a stop word, a phrase, a repetition
PromptTexts ==
    {<<"Alice">>, <<"The">>, <<"The", "Alice">>, <<"Alice", "met", "Alice">>}

\* the words of the template before and after the text
TemplateHead == <<"Extract", "text:">>
TemplateTail == <<"on", "Specific">>

\* Prompter.generate: the template rendered around the text
Generate(text_input) ==
    TemplateHead \o text_input \o TemplateTail

\* calculate_hash
calculate_hash_OfLength(prompt) ==
    <<"md5", Len(prompt)>>

calculate_hash(prompt) ==
    <<"md5", prompt>>

\* [A-Z][a-z]+ matches the word
Capitalised(word) ==
    word \in {"Alice", "The", "Extract", "Specific", "John", "Doe", "Corporation"}

stopwords == {<<"Extract">>, <<"The">>}

\* the prompt after its marker 'text:'
extract_input_text_from_prompt(prompt) ==
    LET at == CHOOSE i \in DOMAIN prompt :
                  /\ prompt[i] = "text:"
                  /\ \A j \in 1..(i - 1) : prompt[j] /= "text:"
    IN SubSeq(prompt, at + 1, Len(prompt))

\* re.findall of the proper noun pattern: the maximal runs of capitalised words
RECURSIVE proper_nouns(_, _)
proper_nouns(words, run) ==
    LET closed == IF run = <<>> THEN <<>> ELSE <<run>>
    IN IF words = <<>> THEN closed
       ELSE IF Capitalised(Head(words))
       THEN proper_nouns(Tail(words), Append(run, Head(words)))
       ELSE closed \o proper_nouns(Tail(words), <<>>)

\* list(dict.fromkeys(entities)): the first occurrence of each is kept
RECURSIVE unique_entities(_)
unique_entities(entities) ==
    IF entities = <<>> THEN <<>>
    ELSE LET rest == unique_entities(SubSeq(entities, 1, Len(entities) - 1))
             last == entities[Len(entities)]
         IN IF \E i \in DOMAIN rest : rest[i] = last THEN rest ELSE Append(rest, last)

\* LocalExtractor._extract_from_prompt and model_output: the entities of the
\* completion
extract_from_prompt(prompt) ==
    LET nouns == proper_nouns(extract_input_text_from_prompt(prompt), <<>>)
        entities == SelectSeq(nouns, LAMBDA noun : noun \notin stopwords)
        unique == unique_entities(entities)
    IN [entities |-> SubSeq(unique, 1, IF Len(unique) < 10 THEN Len(unique) ELSE 10)]

\* PromptCache.get
PromptCache_get_AnyEntry(cache, prompt) ==
    IF cache = <<>> THEN None ELSE cache[1].response

PromptCache_get(cache, prompt) ==
    IF \E i \in DOMAIN cache : cache[i].key = calculate_hash(prompt)
    THEN cache[CHOOSE i \in DOMAIN cache : cache[i].key = calculate_hash(prompt)].response
    ELSE None

\* PromptCache.add: the oldest entry goes when the cache is full
PromptCache_add_EvictNewest(cache, prompt, output) ==
    LET kept == IF Len(cache) >= CacheSize THEN SubSeq(cache, 1, Len(cache) - 1)
                ELSE cache
        entry == [key |-> calculate_hash(prompt), response |-> output]
    IN IF \E i \in DOMAIN kept : kept[i].key = entry.key
       THEN [i \in DOMAIN kept |-> IF kept[i].key = entry.key THEN entry ELSE kept[i]]
       ELSE Append(kept, entry)

PromptCache_add(cache, prompt, output) ==
    LET kept == IF Len(cache) >= CacheSize THEN Tail(cache) ELSE cache
        entry == [key |-> calculate_hash(prompt), response |-> output]
    IN IF \E i \in DOMAIN kept : kept[i].key = entry.key
       THEN [i \in DOMAIN kept |-> IF kept[i].key = entry.key THEN entry ELSE kept[i]]
       ELSE Append(kept, entry)

\* Pipeline._get_output_from_cache_or_model: the output and the cache after it
get_output_from_cache_or_model(cache, prompt) ==
    LET cached == PromptCache_get(cache, prompt)
    IN IF cached /= None
       THEN [output |-> cached, cache |-> cache, hit |-> TRUE]
       ELSE LET output == extract_from_prompt(prompt)
            IN [output |-> output, cache |-> PromptCache_add(cache, prompt, output),
                hit |-> FALSE]

\* NumaClient._extract_entities_from_result: the names of the candidates
extract_entities_from_result(result) ==
    [i \in DOMAIN result.entities |-> result.entities[i]]

\* NumaClient() returned
InitP ==
    /\ IdleE
    /\ IdleX
    /\ IdleR
    /\ IdleS
    /\ IdleK
    /\ IdleC
    /\ IdleQ
    /\ IdleH
    /\ IdleN
    /\ IdleG
    /\ IdleL
    /\ IdleM
    /\ IdleW
    /\ IdleZ
    /\ IdleB
    /\ p_runs = 0
    /\ p_seen = {}
    /\ p_cache = <<>>
    /\ p_out = [op |-> "none"]

\* NumaClient.generate_response for the entities of a text; held tells whether
\* the cache held the prompt's entry when the call began, and uncached is what the
\* same call returns from a pipeline built with cache_prompt=False, which runs
\* the model on every prompt
generate_response ==
    /\ p_runs < MaxRuns
    /\ p_runs' = p_runs + 1
    /\ \E text \in PromptTexts :
          LET got == get_output_from_cache_or_model(p_cache, Generate(text))
          IN /\ p_cache' = got.cache
             /\ p_seen' = p_seen \cup {text}
             /\ p_out' = [op |-> "generate_response", text |-> text, hit |-> got.hit,
                          again |-> text \in p_seen,
                          names |-> extract_entities_from_result(got.output),
                          held |-> calculate_hash(Generate(text)) \in
                                      {p_cache[i].key : i \in DOMAIN p_cache},
                          uncached |-> extract_entities_from_result(
                                          extract_from_prompt(Generate(text)))]
    /\ UNCHANGED othersP

NextP ==
    \/ generate_response

SpecLocalExtractor ==
    InitP /\ [][NextP]_vars

----------------------------------------------------------------------------
(* InHouseKnowledgeExtractor.extract_nodes on InHouseLLMClient: the client    *)
(* cleans the matches of its patterns and keeps the names longer than two     *)
(* characters; extract_nodes makes a node of every candidate it is given.     *)
(* A match is a sequence of characters, letters in either case and spaces.    *)

\* characters of one match, matches of one text
MaxMatchLen == 3
MaxMatches == 2

MatchChars == {"a", "A", " "}

\* str.strip
RECURSIVE strip(_)
strip(s) ==
    IF s = <<>> THEN s
    ELSE IF Head(s) = " " THEN strip(Tail(s))
    ELSE IF s[Len(s)] = " " THEN strip(SubSeq(s, 1, Len(s) - 1))
    ELSE s

\* re.sub(r'\s+', ' ', s)
RECURSIVE collapse_whitespace(_)
collapse_whitespace(s) ==
    IF Len(s) < 2 THEN s
    ELSE IF s[1] = " " /\ s[2] = " " THEN collapse_whitespace(Tail(s))
    ELSE <<Head(s)>> \o collapse_whitespace(Tail(s))

\* str.title
title(s) ==
    [i \in DOMAIN s |->
        IF s[i] = " " THEN " "
        ELSE IF i = 1 \/ s[i - 1] = " " THEN "A" ELSE "a"]

\* str.lower
lower(s) ==
    [i \in DOMAIN s |-> IF s[i] = "A" THEN "a" ELSE s[i]]

\* len(entity_name) > 2
LongEnough_Any(entity_name) ==
    TRUE

LongEnough(entity_name) ==
    Len(entity_name) > 2

\* InHouseLLMClient._extract_entities on the matches of the patterns
RECURSIVE InHouse_extract_entities(_, _, _)
InHouse_extract_entities(matches, seen_entities, entities) ==
    IF matches = <<>>
    THEN SubSeq(entities, 1, IF Len(entities) < 20 THEN Len(entities) ELSE 20)
    ELSE LET entity_name == title(collapse_whitespace(strip(Head(matches))))
         IN IF LongEnough(entity_name) /\ lower(entity_name) \notin seen_entities
            THEN InHouse_extract_entities(Tail(matches),
                     seen_entities \cup {lower(entity_name)},
                     Append(entities, entity_name))
            ELSE InHouse_extract_entities(Tail(matches), seen_entities, entities)

\* the text of the episode has these matches
InitN ==
    /\ IdleE
    /\ IdleX
    /\ IdleR
    /\ IdleS
    /\ IdleK
    /\ IdleC
    /\ IdleQ
    /\ IdleH
    /\ IdleP
    /\ IdleG
    /\ IdleL
    /\ IdleM
    /\ IdleW
    /\ IdleZ
    /\ IdleB
    /\ n_pc = "ready"
    /\ n_matches \in SeqsUpTo(SeqsUpTo(MatchChars, MaxMatchLen), MaxMatches)
    /\ n_nodes = <<>>

\* InHouseKnowledgeExtractor.extract_nodes
InHouse_extract_nodes ==
    /\ n_pc = "ready"
    /\ n_nodes' = InHouseNodes(InHouse_extract_entities(n_matches, {}, <<>>), "g1", 0)
    /\ n_pc' = "done"
    /\ UNCHANGED n_matches
    /\ UNCHANGED othersN

NextN ==
    \/ InHouse_extract_nodes

SpecInHouseNodes ==
    InitN /\ [][NextN]_vars

----------------------------------------------------------------------------
(* Successive extraction passes.  ExtractionService._extract_with_numa builds a *)
(* NumaExtractor for each request and calls extract_nodes on the request's      *)
(* episode; g_passes keeps, per pass, the group id and the nodes returned.      *)

\* extraction passes in one behaviour
MaxPasses == 2

PassGroupIds == {"g1", "g2"}

InitG ==
    /\ IdleE
    /\ IdleX
    /\ IdleR
    /\ IdleS
    /\ IdleK
    /\ IdleC
    /\ IdleQ
    /\ IdleH
    /\ IdleP
    /\ IdleN
    /\ IdleL
    /\ IdleM
    /\ IdleW
    /\ IdleZ
    /\ IdleB
    /\ g_passes = <<>>

\* one extract_nodes call whose last extracted-entities answer is drawn here: the
\* blank names are filtered out and the nodes are numbered from 0 within the call
ExtractNodesPass ==
    /\ Len(g_passes) < MaxPasses
    /\ \E group_id \in PassGroupIds, answer \in SeqsUpTo(ExtractedEntity, MaxEnt) :
          g_passes' = Append(g_passes,
                         [group_id |-> group_id,
                          nodes |-> EntityNodesOf(filtered_extracted_entities(answer),
                                                  group_id)])
    /\ UNCHANGED othersG

NextG ==
    ExtractNodesPass

SpecPasses ==
    InitG /\ [][NextG]_vars

----------------------------------------------------------------------------
(* NumaClient.generate_response: one call, with the response model, the place   *)
(* where the local extraction fails (if it does) and the completion of the      *)
(* pipeline drawn by Init.                                                      *)

\* response_model: the four models of the extractors, another model, and None
ResponseModels ==
    {"ExtractedEntities", "ExtractedEdges", "MissedEntities", "DuplicateEntities",
     "EntitySummary", "None"}

\* where an exception is raised: nowhere; in the pipeline, inside Numa.fit's try;
\* in _generate_with_template outside Numa.fit (template rendering, fit itself)
Faults == {"none", "pipeline", "template"}

RelationDicts ==
    [source : {"A"}, target : {"B"}, relation : RelationTypes]

\* completions of the pipeline: {"entities": [...], "relations": [...]}
Completions ==
    [entities : SeqsUpTo(EntityNames, MaxEnt),
     relations : SeqsUpTo(RelationDicts, MaxPipeCand)]

\* a returned dict {key: items}, and a raised exception
Dict(key, items) ==
    [raised |-> FALSE, key |-> key, items |-> items]

Raised ==
    [raised |-> TRUE, key |-> "none", items |-> <<>>]

\* Numa.fit: the completion, or the empty completion when the pipeline raised
Numa_fit(fault, completion) ==
    IF fault = "pipeline" THEN [entities |-> <<>>, relations |-> <<>>]
    ELSE completion

\* NumaClient._extract_entities_from_result on a dict: the items of "entities",
\* then the non-blank strings of the other lists (the relations are dicts)
NumaClient_extract_entities_from_result(result) ==
    [i \in DOMAIN result.entities |->
        [name |-> result.entities[i], entity_type_id |-> 0, summary |-> None]]

EdgeOfRelation(rel) ==
    [source_name |-> rel.source, target_name |-> rel.target,
     relation_type |-> rel.relation, summary |-> None]

\* NumaClient._extract_edges_from_result on a dict: the dicts of "relations", and
\* again the dicts of every key containing "relation"
NumaClient_extract_edges_from_result(result) ==
    LET edges == [i \in DOMAIN result.relations |-> EdgeOfRelation(result.relations[i])]
    IN edges \o edges

\* NumaClient._extract_missed_entities_from_result on a dict: str(item) of the
\* items of every list
NumaClient_extract_missed_entities_from_result(result) ==
    result.entities
    \o [i \in DOMAIN result.relations |-> <<"str", result.relations[i]>>]

\* NumaClient._extract_duplicates_from_result: no key contains "duplicate"
NumaClient_extract_duplicates_from_result(result) ==
    <<>>

\* NumaClient._get_empty_response
get_empty_response_Entities(model) ==
    Dict("extracted_entities", <<>>)

get_empty_response(model) ==
    IF model = "ExtractedEntities" THEN Dict("extracted_entities", <<>>)
    ELSE IF model = "ExtractedEdges" THEN Dict("extracted_edges", <<>>)
    ELSE IF model = "MissedEntities" THEN Dict("missed_entities", <<>>)
    ELSE IF model = "DuplicateEntities" THEN Dict("duplicates", <<>>)
    ELSE Dict("extracted_entities", <<>>)

\* NumaClient._format_result_for_model
format_result_for_model(result, model) ==
    IF model = "ExtractedEntities"
    THEN Dict("extracted_entities", NumaClient_extract_entities_from_result(result))
    ELSE IF model = "ExtractedEdges"
    THEN Dict("extracted_edges", NumaClient_extract_edges_from_result(result))
    ELSE IF model = "MissedEntities"
    THEN Dict("missed_entities", NumaClient_extract_missed_entities_from_result(result))
    ELSE IF model = "DuplicateEntities"
    THEN Dict("duplicates", NumaClient_extract_duplicates_from_result(result))
    ELSE Dict("extracted_entities", NumaClient_extract_entities_from_result(result))

\* word in model_name
In(word, name) ==
    \E i \in 1..(Len(name) - Len(word) + 1) : SubSeq(name, i, i + Len(word) - 1) = word

Word_entities == <<"e", "n", "t", "i", "t", "i", "e", "s">>
Word_entity == <<"e", "n", "t", "i", "t", "y">>
Word_edges == <<"e", "d", "g", "e", "s">>
Word_edge == <<"e", "d", "g", "e">>
Word_duplicate == <<"d", "u", "p", "l", "i", "c", "a", "t", "e">>
Word_missed == <<"m", "i", "s", "s", "e", "d">>

\* response_model.__name__.lower(), as the sequence of its characters
model_name(model) ==
    IF model = "ExtractedEntities"
       THEN <<"e", "x", "t", "r", "a", "c", "t", "e", "d", "e", "n", "t", "i", "t", "i", "e", "s">>
    ELSE IF model = "ExtractedEdges"
       THEN <<"e", "x", "t", "r", "a", "c", "t", "e", "d", "e", "d", "g", "e", "s">>
    ELSE IF model = "MissedEntities"
       THEN <<"m", "i", "s", "s", "e", "d", "e", "n", "t", "i", "t", "i", "e", "s">>
    ELSE IF model = "DuplicateEntities"
       THEN <<"d", "u", "p", "l", "i", "c", "a", "t", "e", "e", "n", "t", "i", "t", "i", "e", "s">>
    ELSE IF model = "EntitySummary"
       THEN <<"e", "n", "t", "i", "t", "y", "s", "u", "m", "m", "a", "r", "y">>
    ELSE <<>>

\* NumaClient._determine_template_type
determine_template_type(model) ==
    IF model = "None" THEN "extract_nodes"
    ELSE LET name == model_name(model)
         IN IF In(Word_entities, name) \/ In(Word_entity, name) THEN "extract_nodes"
            ELSE IF In(Word_edges, name) \/ In(Word_edge, name) THEN "extract_edges"
            ELSE IF In(Word_duplicate, name) THEN "deduplicate"
            ELSE IF In(Word_missed, name) THEN "reflexion"
            ELSE "extract_nodes"

\* self.templates of NumaClient.__init__
templates == {"extract_nodes", "extract_edges", "deduplicate", "reflexion"}

\* self.templates.get(template_type, self.templates['extract_nodes'])
template_used(template_type) ==
    IF template_type \in templates THEN template_type ELSE "extract_nodes"

\* NumaClient._generate_with_template: raises on the fault outside Numa.fit
generate_with_template(fault, completion, model) ==
    IF fault = "template" THEN Raised
    ELSE LET result == Numa_fit(fault, completion)
         IN IF model /= "None" THEN format_result_for_model(result, model)
            ELSE Dict("content", <<<<"str", result>>>>)

\* NumaClient.generate_response: its try / except around _generate_with_template
NumaClient_generate_response(fault, completion, model) ==
    LET result == generate_with_template(fault, completion, model)
    IN IF ~result.raised THEN result
       ELSE IF model /= "None" THEN get_empty_response(model)
       ELSE Dict("content", <<"">>)

\* the caller has built the messages and the response model
InitL ==
    /\ IdleE
    /\ IdleX
    /\ IdleR
    /\ IdleS
    /\ IdleK
    /\ IdleC
    /\ IdleQ
    /\ IdleH
    /\ IdleP
    /\ IdleN
    /\ IdleG
    /\ IdleM
    /\ IdleW
    /\ IdleZ
    /\ IdleB
    /\ l_pc = "ready"
    /\ l_model \in ResponseModels
    /\ l_fault \in Faults
    /\ l_completion \in Completions
    /\ l_result = Dict("none", <<>>)
    /\ l_template = "none"

GenerateResponseCall ==
    /\ l_pc = "ready"
    /\ l_template' = template_used(determine_template_type(l_model))
    /\ l_result' = NumaClient_generate_response(l_fault, l_completion, l_model)
    /\ l_pc' = "returned"
    /\ UNCHANGED <<l_model, l_fault, l_completion>>
    /\ UNCHANGED othersL

NextL ==
    GenerateResponseCall

SpecNumaClient ==
    InitL /\ [][NextL]_vars

----------------------------------------------------------------------------
(* The two entry points that take an episode from a caller: the knowledge      *)
(* service's add_episode, in the process that holds the store, and the         *)
(* add_episode command of the extraction service process.  A behaviour is a    *)
(* behaviour of one of the two processes.                                      *)

InitI ==
    \/ InitK
    \/ InitS

NextI ==
    \/ AddEpisode
    \/ AddEpisode_ExtractNodes
    \/ AddEpisode_ExtractEdges
    \/ AddEpisode_Neo4jRun
    \/ AddEpisode_Return
    \/ ExtractKnowledge
    \/ RemoteCall
    \/ RemoteReturn
    \/ Fallback
    \/ OuterExcept
    \/ handle_add_episode
    \/ handle_add_episode_Print

SpecEntryPoints ==
    InitI /\ [][NextI]_vars

----------------------------------------------------------------------------
(* The fallback embedders.  embedding_service.py runs as one process per embed *)
(* request; Python keys the hash of a str with a seed drawn when the process   *)
(* starts (the hash of the empty string is 0 whatever the seed).  m_hash is    *)
(* the str hash of the running process, m_out the vectors returned so far.     *)
(* A vector is kept as its length, the values that determine its content, and  *)
(* whether its norm is 1.                                                      *)

\* processes started in one behaviour
MaxProcs == 2
\* vectors returned in one behaviour
MaxVectors == 3

EmbedTexts == {"", "a"}

\* values hash(text) % (2**31) may take for a non-empty text
HashValues == {1, 2}

\* the str hash functions a process may have
StrHashes ==
    {h \in [EmbedTexts -> HashValues \cup {0}] :
        /\ h[""] = 0
        /\ \A t \in EmbedTexts \ {""} : h[t] \in HashValues}

\* RealEmbeddingService.dimension
dimension == 384

\* the 4-byte chunks of hashlib.sha256(text).digest(), each reduced to its two
\* highest bits (value / 3 stands for int.from_bytes(chunk) / (2**32 - 1))
Sha256Chunks(text) ==
    IF text = "" THEN <<3, 2, 2, 2, 0, 1, 2, 1>>
    ELSE <<3, 3, 3, 2, 2, 0, 2, 2>>

RECURSIVE SumOfSquares(_)
SumOfSquares(values) ==
    IF values = <<>> THEN 0
    ELSE Head(values) * Head(values) + SumOfSquares(Tail(values))

\* RealEmbeddingService._generate_mock_embeddings for one text: randn(dimension)
\* seeded with the hash of the text, divided by its norm
generate_mock_embedding(hash, text) ==
    [length |-> dimension, values |-> <<"randn", hash[text]>>, unit |-> TRUE]

\* EionEmbedder._text_to_embedding: the 8 chunk values, padded with 0.0 to 768
text_to_embedding(text) ==
    [length |-> IF Len(Sha256Chunks(text)) < 768 THEN 768 ELSE Len(Sha256Chunks(text)),
     values |-> <<"sha256", Sha256Chunks(text)>>,
     unit |-> SumOfSquares(Sha256Chunks(text)) = 3 * 3]

\* no process started yet
InitM ==
    /\ IdleE
    /\ IdleX
    /\ IdleR
    /\ IdleS
    /\ IdleK
    /\ IdleC
    /\ IdleQ
    /\ IdleH
    /\ IdleP
    /\ IdleN
    /\ IdleG
    /\ IdleL
    /\ IdleW
    /\ IdleZ
    /\ IdleB

    /\ m_procs = 0
    /\ m_hash = <<>>
    /\ m_out = {}

\* a Python process starts: its hash seed is drawn
StartProcess ==
    /\ m_procs < MaxProcs
    /\ m_procs' = m_procs + 1
    /\ m_hash' \in StrHashes
    /\ UNCHANGED m_out
    /\ UNCHANGED othersM

\* RealEmbeddingService.generate_embeddings without a model, for one text
MockEmbed ==
    /\ m_procs > 0
    /\ Cardinality(m_out) < MaxVectors
    /\ \E text \in EmbedTexts :
          m_out' = m_out \cup {[embedder |-> "RealEmbeddingService", proc |-> m_procs,
                                text |-> text,
                                vector |-> generate_mock_embedding(m_hash, text)]}
    /\ UNCHANGED <<m_procs, m_hash>>
    /\ UNCHANGED othersM

\* EionEmbedder.create
EionEmbed ==
    /\ m_procs > 0
    /\ Cardinality(m_out) < MaxVectors
    /\ \E text \in EmbedTexts :
          m_out' = m_out \cup {[embedder |-> "EionEmbedder", proc |-> m_procs,
                                text |-> text, vector |-> text_to_embedding(text)]}
    /\ UNCHANGED <<m_procs, m_hash>>
    /\ UNCHANGED othersM

NextM ==
    \/ StartProcess
    \/ MockEmbed
    \/ EionEmbed

SpecEmbedders ==
    InitM /\ [][NextM]_vars

----------------------------------------------------------------------------
(* One text ingested through the local backend: NumaExtractor.extract_nodes    *)
(* and extract_edges on the answers NumaClient builds from the completion of   *)
(* LocalExtractor._extract_from_prompt.  A text is its sequence of words, a    *)
(* name the sequence of words it is made of.                                   *)

\* words of a drawn text
MaxWords == 4

IngestWords == {"John", "Doe", "works", "for", "ACME"}

JohnDoeText ==
    <<"John", "Doe", "works", "for", "ACME", "Corporation", "and", "manages", "the",
      "data", "processing", "system.">>

IngestTexts ==
    SeqsUpTo(IngestWords, MaxWords) \cup {JohnDoeText}

\* the word is made of letters only ([a-zA-Z]+)
Alphabetic(word) ==
    word \notin {"text:", "system."}

\* the letters of a word that ends with '.' or ','
Bare(word) ==
    IF word = "system." THEN "system" ELSE word

\* the first word of a target, followed by '.', ',', white space or the end
TargetAt(words, i) ==
    IF i <= Len(words) /\ Alphabetic(Bare(words[i])) THEN <<Bare(words[i])>> ELSE <<>>

\* the positions of "works|worked" followed by "at|for"
WorksAtPositions(words) ==
    {i \in 2..(Len(words) - 2) :
        /\ words[i] \in {"works", "worked"}
        /\ words[i + 1] \in {"at", "for"}
        /\ Alphabetic(words[i - 1])
        /\ TargetAt(words, i + 2) /= <<>>}

\* the source of the match at i: the words before it, back to the start of the
\* text or to a word that is not made of letters
SourceBefore(words, i) ==
    LET starts == {j \in 1..(i - 1) : \A k \in j..(i - 1) : Alphabetic(words[k])}
    IN SubSeq(words, CHOOSE j \in starts : \A k \in starts : j <= k, i - 1)

\* the relation patterns of _extract_from_prompt on the input text: the words of
\* the model match none but the works_at pattern, and a text of the model is too
\* short for two matches
extract_relations(input_text) ==
    IF WorksAtPositions(input_text) = {} THEN <<>>
    ELSE LET i == CHOOSE k \in WorksAtPositions(input_text) :
                     \A l \in WorksAtPositions(input_text) : k <= l
             found == [source |-> SourceBefore(input_text, i),
                       target |-> TargetAt(input_text, i + 2),
                       relation |-> "works_at"]
         IN IF found.source \notin stopwords /\ found.target \notin stopwords
            THEN <<found>> ELSE <<>>

\* LocalExtractor._extract_from_prompt: entities and relations
LocalExtractor_extract_from_prompt(prompt) ==
    [entities |-> extract_from_prompt(prompt).entities,
     relations |-> extract_relations(extract_input_text_from_prompt(prompt))]

\* an episode with its text
InitW ==
    /\ IdleE
    /\ IdleX
    /\ IdleR
    /\ IdleS
    /\ IdleK
    /\ IdleC
    /\ IdleQ
    /\ IdleH
    /\ IdleP
    /\ IdleN
    /\ IdleG
    /\ IdleL
    /\ IdleM
    /\ IdleZ
    /\ IdleB

    /\ w_pc = "ready"
    /\ w_text \in IngestTexts
    /\ w_nodes = <<>>
    /\ w_edges = <<>>

\* extract_nodes then extract_edges, as _extract_with_numa calls them; the names
\* the pattern finds are never blank, so line 130 keeps every candidate
IngestText ==
    /\ w_pc = "ready"
    /\ LET completion == LocalExtractor_extract_from_prompt(Generate(w_text))
           candidates == NumaClient_extract_entities_from_result(completion)
           nodes == NumaNodes([i \in DOMAIN candidates |-> candidates[i].name], "g1")
           answer == NumaClient_extract_edges_from_result(completion)
       IN /\ w_nodes' = nodes
          /\ w_edges' = Numa_extract_edges(nodes, "g1", answer).edges
    /\ w_pc' = "done"
    /\ UNCHANGED w_text
    /\ UNCHANGED othersW

NextW ==
    IngestText

SpecIngest ==
    InitW /\ [][NextW]_vars

----------------------------------------------------------------------------
(* LLMClient._clean_input, NumaClient._clean_input: a string is the sequence of
   its code points *)

MaxCleanLen == 3

\* NUL, tab, newline, carriage return, ESC, space, 'A', DEL, U+0085 (a C1
\* control), U+200B (zero-width space), U+FEFF, a lone surrogate U+D800
CodePoints == {0, 9, 10, 13, 27, 32, 65, 127, 133, 8203, 65279, 55296}

\* encode('utf-8', errors='ignore') leaves out what UTF-8 cannot encode: the
\* surrogates U+D800..U+DFFF
Utf8Encodable(c) ==
    ~(c >= 55296 /\ c <= 57343)

\* zero_width = U+200B, U+200C, U+200D, U+FEFF, U+2060
zero_width == {8203, 8204, 8205, 65279, 8288}

\* ord(char) >= 32 or char in '\n\r\t'
KeptByControlFilter(c) ==
    c >= 32 \/ c \in {10, 13, 9}

clean_input(input_str) ==
    LET encoded == SelectSeq(input_str, Utf8Encodable)
        NotZeroWidth(c) == c \notin zero_width
        cleaned == SelectSeq(encoded, NotZeroWidth)
    IN SelectSeq(cleaned, KeptByControlFilter)

InitZ ==
    /\ IdleE
    /\ IdleX
    /\ IdleR
    /\ IdleS
    /\ IdleK
    /\ IdleC
    /\ IdleQ
    /\ IdleH
    /\ IdleP
    /\ IdleN
    /\ IdleG
    /\ IdleL
    /\ IdleM
    /\ IdleW
    /\ IdleB
    /\ z_pc = "start"
    /\ z_input \in SeqsUpTo(CodePoints, MaxCleanLen)
    /\ z_content = z_input
    /\ z_again = <<>>

\* generate_response: message.content = self._clean_input(message.content)
CleanMessage ==
    /\ z_pc = "start"
    /\ z_content' = clean_input(z_content)
    /\ z_pc' = "cleaned"
    /\ UNCHANGED <<z_input, z_again>>
    /\ UNCHANGED othersZ

\* the same messages passed to generate_response again
CleanMessageAgain ==
    /\ z_pc = "cleaned"
    /\ z_again' = clean_input(z_content)
    /\ z_pc' = "twice"
    /\ UNCHANGED <<z_input, z_content>>
    /\ UNCHANGED othersZ

NextZ ==
    \/ CleanMessage
    \/ CleanMessageAgain

SpecClean ==
    InitZ /\ [][NextZ]_vars

----------------------------------------------------------------------------
(* PromptCache under any sequence of get and add calls.  b_cache is the dict in *)
(* its iteration order.  b_ins, b_latest and b_out are history: the time each   *)
(* key of the cache was inserted, the response of the latest add of each key    *)
(* not evicted since, and the last call with what it returned or evicted.       *)

MaxCacheOps == 4

CachePrompts == {<<"p1">>, <<"p2">>, <<"p3">>}

CacheResponses == {[text |-> "r1"], [text |-> "r2"]}

\* the keys of the dict
CacheKeys(cache) ==
    {cache[i].key : i \in DOMAIN cache}

\* the place of a key in the iteration order of the dict
Position(cache, key) ==
    CHOOSE i \in DOMAIN cache : cache[i].key = key

\* PromptCache() returned
InitB ==
    /\ IdleE
    /\ IdleX
    /\ IdleR
    /\ IdleS
    /\ IdleK
    /\ IdleC
    /\ IdleQ
    /\ IdleH
    /\ IdleP
    /\ IdleN
    /\ IdleG
    /\ IdleL
    /\ IdleM
    /\ IdleW
    /\ IdleZ
    /\ b_ops = 0
    /\ b_cache = <<>>
    /\ b_ins = {}
    /\ b_latest = {}
    /\ b_out = [op |-> "init"]

\* PromptCache.get
CacheGet ==
    /\ b_out.op /= "none"
    /\ b_ops < MaxCacheOps
    /\ b_ops' = b_ops + 1
    /\ \E prompt \in CachePrompts :
          b_out' = [op |-> "get", key |-> calculate_hash(prompt),
                    result |-> PromptCache_get(b_cache, prompt)]
    /\ UNCHANGED <<b_cache, b_ins, b_latest>>
    /\ UNCHANGED othersB

\* PromptCache.add
CacheAdd ==
    /\ b_out.op /= "none"
    /\ b_ops < MaxCacheOps
    /\ b_ops' = b_ops + 1
    /\ \E prompt \in CachePrompts, output \in CacheResponses :
          LET key == calculate_hash(prompt)
              after == PromptCache_add(b_cache, prompt, output)
              gone == CacheKeys(b_cache) \ CacheKeys(after)
              \* the keys the call deleted: those no longer in the dict, and the
              \* added key when it moved behind a key it preceded
              deleted == gone \cup {k \in CacheKeys(b_cache) \cap CacheKeys(after) :
                                       \E j \in CacheKeys(b_cache) \cap CacheKeys(after) :
                                          /\ Position(b_cache, k) < Position(b_cache, j)
                                          /\ Position(after, k) > Position(after, j)}
              stay == {e \in b_ins : e.key \notin deleted /\ e.key /= key}
              own == {e \in b_ins : e.key = key /\ key \notin deleted}
          IN /\ b_cache' = after
             /\ b_ins' = stay \cup (IF own /= {} THEN own
                                    ELSE {[key |-> key, time |-> b_ops + 1]})
             /\ b_latest' = {e \in b_latest : e.key \notin gone /\ e.key /= key}
                               \cup {[key |-> key, response |-> output]}
             /\ b_out' = [op |-> "add", key |-> key, evicted |-> deleted,
                          before |-> b_ins, size_before |-> Len(b_cache)]
    /\ UNCHANGED othersB

NextB ==
    \/ CacheGet
    \/ CacheAdd

SpecCache ==
    InitB /\ [][NextB]_vars

----------------------------------------------------------------------------
(* Claims on the reflexion loop *)

\* C1: one call of extract_nodes sends at most MAX_REFLEXION_ITERATIONS
\* extracted-entities requests and at most MAX_REFLEXION_ITERATIONS
\* missed-entities requests, whatever the backend answers.
C1_AtMostMaxCycles ==
    /\ CountKind(requests, "extracted_entities") <= MAX_REFLEXION_ITERATIONS
    /\ CountKind(requests, "missed_entities") <= MAX_REFLEXION_ITERATIONS

----------------------------------------------------------------------------
(* Claims on extract_edges *)

\* C2: a call of extract_edges with fewer than 2 entity nodes returns an empty
\* edge list and sends no extracted-edges request, for both extractors.
C2_FewNodesNoEdgesNoRequest ==
    (e_pc = "returned" /\ Len(e_nodes) < 2) =>
        /\ e_result.edges = <<>>
        /\ e_result.requests = 0
        /\ ~e_result.raised

\* a call with 0 or 1 node has returned, for each extractor
C2_Witness ==
    /\ e_pc = "returned"
    /\ Len(e_nodes) = 1
    /\ e_impl = "inhouse"
    /\ e_cands /= <<>>

\* the id the name-to-id map of the given nodes gives a name (None: no such name)
ResolvedId(nodes, name) ==
    IF \E i \in DOMAIN nodes : nodes[i].name = name
    THEN nodes[CHOOSE i \in DOMAIN nodes :
                  /\ nodes[i].name = name
                  /\ \A j \in DOMAIN nodes : nodes[j].name = name => j <= i].uuid
    ELSE None

\* a candidate whose two names resolve to two different ids
Resolves(nodes, cand) ==
    /\ ResolvedId(nodes, cand.source_name) /= None
    /\ ResolvedId(nodes, cand.target_name) /= None
    /\ ResolvedId(nodes, cand.source_name) /= ResolvedId(nodes, cand.target_name)

RECURSIVE ExpectedEdges(_, _)
ExpectedEdges(nodes, cands) ==
    IF cands = <<>> THEN <<>>
    ELSE (IF Resolves(nodes, Head(cands))
          THEN <<[source_node_uuid |-> ResolvedId(nodes, Head(cands).source_name),
                  target_node_uuid |-> ResolvedId(nodes, Head(cands).target_name),
                  relation_type |-> Head(cands).relation_type]>>
          ELSE <<>>) \o ExpectedEdges(nodes, Tail(cands))

Endpoints(edge_list) ==
    [i \in 1..Len(edge_list) |->
        [source_node_uuid |-> edge_list[i].source_node_uuid,
         target_node_uuid |-> edge_list[i].target_node_uuid,
         relation_type |-> edge_list[i].relation_type]]

\* C4: extract_edges returns exactly the candidates whose source and target name
\* resolve, through the name-to-id map of the given entities, to two different
\* ids, in the backend's order, and drops the others without raising; so no
\* returned edge has source id = target id.  For both extractors.
C4_ExactlyResolvedEdges ==
    (e_pc = "returned" /\ Len(e_nodes) >= 2) =>
        /\ ~e_result.raised
        /\ Endpoints(e_result.edges) = ExpectedEdges(e_nodes, e_cands)
        /\ \A i \in DOMAIN e_result.edges :
              e_result.edges[i].source_node_uuid /= e_result.edges[i].target_node_uuid

\* the same statement for NumaExtractor.extract_edges alone
C4_NumaExactlyResolvedEdges ==
    (e_impl = "numa") => C4_ExactlyResolvedEdges

----------------------------------------------------------------------------
(* Claims on the store *)

\* an id is the id of a stored entity drawn by the call that drew the edge
StoredInSameCall(entity_uuid, edge_uuid) ==
    /\ entity_uuid \in DOMAIN k_entities
    /\ k_batch[entity_uuid] = k_batch[edge_uuid]

\* C3: after any sequence of add_episode calls, failed ones included, every
\* stored edge has a source id and a target id that are ids of stored
\* entities produced by the same add_episode call as the edge; in the graph
\* database every relation joins two entity nodes written by the call that
\* wrote the relation.
C3_StoredEdgesJoinStoredEntities ==
    /\ \A u \in DOMAIN k_edges :
          /\ StoredInSameCall(k_edges[u].source_node_uuid, u)
          /\ StoredInSameCall(k_edges[u].target_node_uuid, u)
    /\ \A r \in neo_rels :
          r.type = "RELATION" =>
             /\ Matches(neo_nodes, "Entity", r.source)
             /\ Matches(neo_nodes, "Entity", r.target)
             /\ k_batch[r.source] = k_batch[r.uuid]
             /\ k_batch[r.target] = k_batch[r.uuid]

\* a call that wrote its edge to the database, then a call that stored an edge
\* in memory and failed before the database held it
C3_Witness ==
    /\ k_calls = 2
    /\ k_pc = "idle"
    /\ k_last = "raised"
    /\ Cardinality(DOMAIN k_edges) = 2
    /\ Cardinality({r \in neo_rels : r.type = "RELATION"}) = 1

----------------------------------------------------------------------------
(* Claims on the retries of a remote generate call *)

\* an attempt that gave a result: a 200 response whose content parses (or needs
\* no parsing, when no response model was asked for)
AttemptSucceeded(raw, with_model) ==
    /\ raw.kind = "response"
    /\ raw.status_code = 200
    /\ \/ raw.body \in {"content_json_1", "content_json_2"}
       \/ raw.body = "content_text" /\ ~with_model

\* a rate-limit signal, a malformed-JSON response or an HTTP 5xx status
RetryableFailure(raw, with_model) ==
    /\ raw.kind = "response"
    /\ \/ raw.status_code = 429
       \/ raw.status_code \in 500..599
       \/ raw.status_code = 200 /\ raw.body = "not_json"
       \/ raw.status_code = 200 /\ raw.body = "content_text" /\ with_model

\* C5: for every k in 0..3, when the first k attempts failed with a retryable
\* error the call goes on to attempt k+1, and when attempt k+1 succeeds the
\* call returns the result of that attempt and raises nothing.
C5_RetryThenSuccess ==
    \A k \in 0..3 :
        (/\ Len(attempts) >= k
         /\ \A i \in 1..k : RetryableFailure(attempts[i], response_model)) =>
            /\ Len(attempts) = k => r_pc = "calling"
            /\ (Len(attempts) > k /\ AttemptSucceeded(attempts[k + 1], response_model)) =>
                  /\ r_pc = "returned"
                  /\ Len(attempts) = k + 1
                  /\ r_result.ok
                  /\ r_result.value = attempts[k + 1].body

\* three 503 answers, then a good one: the call has returned
C5_Witness ==
    /\ r_pc = "returned"
    /\ Len(attempts) = 4
    /\ \A i \in 1..3 : attempts[i].status_code = 503
    /\ r_result.value = "content_json_2"

\* C6: when every attempt fails with a retryable error the call makes exactly 4
\* attempts and then raises; no call ever makes a 5th attempt, and such a call
\* never returns a result.
C6_ExhaustionRaises ==
    /\ Len(attempts) <= 4
    /\ attempt_number = Len(attempts)
    /\ (\A i \in DOMAIN attempts : RetryableFailure(attempts[i], response_model)) =>
          /\ r_pc /= "returned"
          /\ Len(attempts) < 4 => r_pc = "calling"
          /\ Len(attempts) = 4 => (r_pc = "raised" /\ ~r_result.ok)

\* four 503 answers: the call has raised the last error
C6_Witness ==
    /\ r_pc = "raised"
    /\ Len(attempts) = 4
    /\ \A i \in 1..4 : attempts[i].status_code = 503
    /\ r_result.type = "HTTPStatusError"

\* C7: a failed attempt is followed by another attempt exactly when the failure
\* is a rate-limit signal, a malformed-JSON response or an HTTP 5xx status and
\* fewer than 4 attempts were made; any other failure ends the call at that
\* attempt with the error raised.
C7_RetryIffRetryable ==
    \A i \in DOMAIN attempts :
        ~AttemptSucceeded(attempts[i], response_model) =>
            /\ (i < Len(attempts) \/ r_pc = "calling")
                  <=> (RetryableFailure(attempts[i], response_model) /\ i < 4)
            /\ ~RetryableFailure(attempts[i], response_model) =>
                  /\ i = Len(attempts)
                  /\ r_pc = "raised"
                  /\ ~r_result.ok
                  /\ r_result = OpenAI_generate_response(attempts[i], response_model)

\* a 429 was retried, the 404 that followed ended the call
C7_Witness ==
    /\ r_pc = "raised"
    /\ Len(attempts) = 2
    /\ attempts[1].status_code = 429
    /\ attempts[2].status_code = 404

----------------------------------------------------------------------------
(* Claims on the choice of the backend by extract_knowledge *)

\* the response carries what the local extractor returned
LocalResultReturned ==
    /\ local_result /= None
    /\ response.success
    /\ response.extracted_nodes = local_result.nodes
    /\ response.extracted_edges = local_result.edges
    /\ s_calls[Len(s_calls)].backend = "local"

\* the call asked for the local backend, or the service has no remote client
LocalOnly ==
    /\ request /= None
    /\ (request.use_numa = "True" \/ llm_client = "None")

NoRemoteRequest ==
    /\ remote = None
    /\ \A i \in DOMAIN s_calls : s_calls[i].backend /= "remote"

\* a remote request of the call raised after its 4th attempt, every attempt
\* having failed with an error that is retried
RemoteExhausted ==
    /\ last_remote /= None
    /\ last_remote.attempts = 4
    /\ is_server_or_retry_error(last_remote.outcome)

\* C8 as stated: when use_numa is true or the service has no remote client,
\* extract_knowledge sends no request to the remote backend and returns the
\* result of the local backend (read for a request whose previous episodes
\* convert, so that the local extractor is reached).
C8_LocalOnlyReturnsLocalResult ==
    LocalOnly =>
        /\ NoRemoteRequest
        /\ ((s_pc = "done" /\ request.timestamps_ok) => LocalResultReturned)

\* C8 amended: when use_numa is true or the service has no remote client,
\* extract_knowledge sends no request to the remote backend; it returns the
\* result of the local backend when the local client exists and the previous
\* episodes convert, and success=false otherwise.
C8_LocalOnlyNeverRemote ==
    LocalOnly =>
        /\ NoRemoteRequest
        /\ (s_pc = "done" =>
               IF numa_client = "None"
               THEN /\ ~response.success
                    /\ response.error = "No extraction clients available"
                    /\ local_result = None
               ELSE IF ~request.timestamps_ok
               THEN /\ ~response.success
                    /\ response.error = "ValueError"
                    /\ local_result = None
               ELSE LocalResultReturned)

\* use_numa is true, a remote client exists, and the local result is returned
C8_Witness ==
    /\ s_pc = "done"
    /\ request.use_numa = "True"
    /\ llm_client = "OpenAIClient"
    /\ LocalResultReturned
    /\ Len(response.extracted_nodes) = 2

\* the remote backend was chosen and one of its requests used up its retries
RemoteChosenAndExhausted ==
    /\ s_pc = "done"
    /\ request.use_numa /= "True"
    /\ llm_client /= "None"
    /\ RemoteExhausted

\* C9 as stated: when use_numa is false, a remote client exists and the remote
\* extraction raises after exhausting its retries, extract_knowledge returns
\* the result of the local extractor with success=true.
C9_FallbackAlwaysSucceeds ==
    RemoteChosenAndExhausted => LocalResultReturned

\* C9 amended: in that case extract_knowledge returns the result of the local
\* extractor with success=true when the local client exists, and success=false
\* with the error "No extraction clients available" when it does not.
C9_FallbackWhenLocalExists ==
    RemoteChosenAndExhausted =>
        IF numa_client /= "None"
        THEN LocalResultReturned
        ELSE /\ ~response.success
             /\ response.error = "No extraction clients available"
             /\ local_result = None

\* the first remote request used up its retries and the local result came back
C9_Witness ==
    /\ RemoteChosenAndExhausted
    /\ last_remote.kind = "Extract"
    /\ Len(s_calls) = 2
    /\ LocalResultReturned

----------------------------------------------------------------------------
(* Claims on concurrent extraction *)

\* C11: at every moment at most SEMAPHORE_LIMIT backend requests are in flight
\* over all the extraction tasks of the process.
C11_AtMostSemaphoreLimitInFlight ==
    Cardinality(InFlight(t_pc)) <= SEMAPHORE_LIMIT

\* with NumaClient, whose generate_response never suspends, requests never
\* overlap; no task ever holds a slot of the semaphore
C11_LocalRequestsNeverOverlap ==
    /\ semaphore = SEMAPHORE_LIMIT
    /\ ~client_suspends => max_in_flight <= 1

----------------------------------------------------------------------------
(* Claims on failed add_episode calls and on stored episodes *)

\* the last add_episode call raised
LastCallRaised ==
    /\ k_pc = "idle"
    /\ k_last = "raised"

\* C12: when add_episode fails at any step, neither the in-memory store nor
\* the graph database holds anything of the call afterwards: the stores are
\* as they were before the call.
C12_FailedCallLeavesNoTrace ==
    LastCallRaised => Stores = k_before

----------------------------------------------------------------------------
(* Claims on the queries of EionKnowledgeService *)

\* every episode of the memory and of the graph is there, unchanged, after a step
EpisodesKept ==
    /\ \A u \in DOMAIN q_memory : u \in DOMAIN q_memory' /\ q_memory'[u] = q_memory[u]
    /\ q_episodes \subseteq q_episodes'
    /\ \A ep \in q_episodes' : \A old \in q_episodes : ep.uuid = old.uuid => ep = old

\* C13: episodes are append-only: no add_episode, search or get_episodes call
\* removes an episode that was stored, from the memory or from the graph, or
\* changes its id, group id, source kind or creation time
C13_EpisodesAreAppendOnly ==
    [][EpisodesKept]_vars

\* two episodes are stored, in memory and in the graph, and a query came after
C13_Witness ==
    /\ Cardinality(DOMAIN q_memory) = 2
    /\ Cardinality(q_episodes) = 2
    /\ q_result.op = "get_episodes"
    /\ ~q_result.failed
    /\ q_result.count = 2

\* the letter of a character, whatever its case
Letter(c) ==
    IF c \in {"a", "A"} THEN 1 ELSE 2

\* part occurs in text when case is ignored
ContainsIgnoringCase(text, part) ==
    \E i \in 0..(Len(text) - Len(part)) :
        \A j \in 1..Len(part) : Letter(text[i + j]) = Letter(part[j])

\* the entity is of the groups asked for
InGroupsAsked(group_ids, e) ==
    group_ids.null \/ e.group_id \in group_ids.ids

\* search returned the rows of its query
SearchAnswered ==
    /\ q_result.op = "search"
    /\ ~q_result.failed

\* C14: search returns stored entities whose name or summary contains the query
\* as a case-insensitive substring, and only those; an entity whose name
\* contains the query is returned whenever at most limit entities match; a
\* query that no stored name or summary contains returns no result and count 0
C14_SearchIsSubstringMatch ==
    SearchAnswered =>
        LET query == q_result.query
            matching == {e \in q_entities :
                            /\ InGroupsAsked(q_result.group_ids, e)
                            /\ \/ ContainsIgnoringCase(e.name, query)
                               \/ ContainsIgnoringCase(e.summary, query)}
        IN /\ \A r \in q_result.results :
                 \E e \in q_entities :
                     /\ e.uuid = r.uuid
                     /\ e.name = r.name
                     /\ \/ ContainsIgnoringCase(e.name, query)
                        \/ ContainsIgnoringCase(e.summary, query)
           /\ Cardinality(matching) <= q_result.limit =>
                 \A e \in matching :
                     ContainsIgnoringCase(e.name, query) =>
                         \E r \in q_result.results : r.uuid = e.uuid
           /\ (\A e \in q_entities :
                  /\ ~ContainsIgnoringCase(e.name, query)
                  /\ ~ContainsIgnoringCase(e.summary, query)) =>
                 (q_result.results = {} /\ q_result.count = 0)
           /\ q_result.count = Cardinality(q_result.results)

\* a query in another case than the stored name found the entity
C14_Witness ==
    /\ SearchAnswered
    /\ q_result.query = <<"a", "B">>
    /\ \E r \in q_result.results : r.name = <<"A", "b">>

\* a query that no stored entity contains, on a store that has entities
C14_WitnessAbsent ==
    /\ SearchAnswered
    /\ q_entities /= {}
    /\ q_result.query = <<"B", "B">>
    /\ q_result.count = 0

\* get_episodes returned the rows of its query
EpisodesAnswered ==
    /\ q_result.op = "get_episodes"
    /\ ~q_result.failed

\* C16: get_episodes returns at most last_n episodes, all stored and of the
\* groups asked for; they are listed most recent first, and no stored episode
\* of those groups that is left out is more recent than a returned one
C16_MostRecentFirst ==
    EpisodesAnswered =>
        LET rows == q_result.episodes
            asked == {ep \in q_episodes : InGroupsAsked(q_result.group_ids, ep)}
            returned == {ep \in asked : \E i \in DOMAIN rows : rows[i].uuid = ep.uuid}
        IN /\ Len(rows) <= q_result.limit
           /\ q_result.count = Len(rows)
           /\ \A i \in DOMAIN rows : \E ep \in asked :
                 /\ ep.uuid = rows[i].uuid
                 /\ ep.created_at = rows[i].created_at
                 /\ ep.group_id = rows[i].group_id
           /\ \A i, j \in DOMAIN rows : i < j => rows[i].created_at >= rows[j].created_at
           /\ \A ep \in asked \ returned :
                 /\ Len(rows) = q_result.limit
                 /\ \A i \in DOMAIN rows : ep.created_at <= rows[i].created_at

\* two episodes are stored for the groups asked, one was asked for, and the
\* later one came back
C16_Witness ==
    /\ EpisodesAnswered
    /\ q_result.limit = 1
    /\ Cardinality({ep \in q_episodes : InGroupsAsked(q_result.group_ids, ep)}) = 2
    /\ q_result.count = 1
    /\ q_result.episodes[1].created_at = 2

\* the last query failed: the embedder or the database raised
QueryFailed ==
    /\ q_result.op \in {"search", "get_episodes"}
    /\ q_result.failed

\* C17: when the store is unreachable or the query raises, search and
\* get_episodes return an empty list with count 0 and an error field
C17_FailureCarriesErrorField ==
    QueryFailed =>
        /\ q_result.count = 0
        /\ "error" \in q_result.keys

\* what does hold: a failed query returns an empty list with count 0
C17_FailureReturnsEmpty ==
    QueryFailed =>
        /\ q_result.count = 0
        /\ IF q_result.op = "search" THEN q_result.results = {}
           ELSE q_result.episodes = <<>>

----------------------------------------------------------------------------
(* Claims on the commands of extraction_service.py *)

\* the search command printed the rows of its query for a list of groups
CommandSearchAnswered ==
    /\ h_out.cmd = "search"
    /\ h_out.keys = {"results", "count"}
    /\ h_out.group_ids /= {}

\* C15: when a non-empty list of group ids is given, every result of the search
\* command belongs to one of the given groups
C15_CommandResultsInGroupsAsked ==
    CommandSearchAnswered =>
        \A i \in DOMAIN h_out.results :
            \A row \in h_sessions :
                row.id = h_out.results[i].uuid => row.user_id \in h_out.group_ids

\* the same for EionKnowledgeService.search, where it holds
C15_ServiceResultsInGroupsAsked ==
    (SearchAnswered /\ ~q_result.group_ids.null) =>
        \A r \in q_result.results :
            \A e \in q_entities :
                e.uuid = r.uuid => e.group_id \in q_result.group_ids.ids

\* the add_episode command printed its answer after extract_knowledge returned
AddEpisodePrinted ==
    /\ h_out.cmd = "add_episode"
    /\ h_out.printed
    /\ s_pc = "done"

\* C18: when extract_knowledge reports success=false, the add_episode command
\* returns a structured error, never a success payload with a zero exit status
C18_FailedExtractionPrintsError ==
    (AddEpisodePrinted /\ ~response.success) =>
        /\ "error" \in h_out.keys
        /\ h_out.exit /= 0

\* what the command does print then: the payload with zero counts
C18_FailedExtractionPrintsZeroCounts ==
    (AddEpisodePrinted /\ ~response.success) =>
        /\ h_out.keys = AddEpisodePayloadKeys
        /\ h_out.nodes_created = 0
        /\ h_out.edges_created = 0
        /\ h_out.exit = 0

----------------------------------------------------------------------------
(* Claims on the local extractor *)

\* the names of a sequence of candidates
NameSet(names) ==
    {names[i] : i \in DOMAIN names}

\* the names a run on the empty cache gives for the text
ColdRunNames(text) ==
    NameSet(extract_entities_from_result(
                get_output_from_cache_or_model(<<>>, Generate(text)).output))

\* C19: the local extractor is deterministic: whatever calls came before and
\* whatever the prompt cache holds, a run on a text yields the entity names
\* that a run on the empty cache yields for that text
C19_LocalExtractorIsDeterministic ==
    p_out.op = "generate_response" => NameSet(p_out.names) = ColdRunNames(p_out.text)

\* a run answered from the cache, with another text cached beside it
C19_Witness ==
    /\ p_out.op = "generate_response"
    /\ p_out.hit
    /\ Len(p_cache) = 2
    /\ p_out.names /= <<>>

\* a run that computed its answer again after its entry had been evicted
C19_WitnessEvicted ==
    /\ p_out.op = "generate_response"
    /\ ~p_out.hit
    /\ p_out.again
    /\ p_out.names /= <<>>

----------------------------------------------------------------------------
(* Claims on the names of the entity nodes *)

\* the name is empty or whitespace only
BlankName(name) ==
    name \in {"", " "}

C20_InHouseNodesHaveNames ==
    n_pc = "done" =>
        \A i \in DOMAIN n_nodes :
            \E j \in DOMAIN n_nodes[i].name : n_nodes[i].name[j] /= " "

\* a match of whitespace only was dropped and another match became a node
C20_InHouseWitness ==
    /\ n_pc = "done"
    /\ \E i \in DOMAIN n_matches : n_matches[i] = <<" ", " ", " ">>
    /\ n_nodes /= <<>>

----------------------------------------------------------------------------
(* Claims on entity ids and names *)

\* C21: entity ids are unique: two different entities never carry the same id,
\* whether they come from the same extraction pass or from two extraction passes
\* of the same group id.
C21_EntityIdsAreUnique ==
    \A p1 \in DOMAIN g_passes, p2 \in DOMAIN g_passes :
       \A i1 \in DOMAIN g_passes[p1].nodes, i2 \in DOMAIN g_passes[p2].nodes :
          (p1 /= p2 \/ i1 /= i2)
             => g_passes[p1].nodes[i1].uuid /= g_passes[p2].nodes[i2].uuid

\* the part of C21 that holds: within one pass, and across passes of different
\* group ids, no two entities share an id
C21_UniqueWithinPassAndAcrossGroups ==
    \A p1 \in DOMAIN g_passes, p2 \in DOMAIN g_passes :
       \A i1 \in DOMAIN g_passes[p1].nodes, i2 \in DOMAIN g_passes[p2].nodes :
          /\ (p1 = p2 /\ i1 /= i2)
                => g_passes[p1].nodes[i1].uuid /= g_passes[p2].nodes[i2].uuid
          /\ g_passes[p1].group_id /= g_passes[p2].group_id
                => g_passes[p1].nodes[i1].uuid /= g_passes[p2].nodes[i2].uuid

\* C22: within one extraction pass the entities returned by extract_nodes have
\* pairwise distinct names, whatever candidate list the backend returned.
C22_NamesDistinctWithinPass ==
    x_pc \in {"nodes_returned", "done"}
       => \A i \in DOMAIN extracted_nodes, j \in DOMAIN extracted_nodes :
             i /= j => extracted_nodes[i].name /= extracted_nodes[j].name

\* what extract_nodes does guarantee: one node per candidate with a non-blank
\* name, in the order of the backend's answer, repeated names included
C22_OneNodePerNamedCandidate ==
    x_pc \in {"nodes_returned", "done"}
       => [i \in DOMAIN extracted_nodes |-> extracted_nodes[i].name]
             = [i \in DOMAIN filtered_extracted_entities(extracted_entities) |->
                   filtered_extracted_entities(extracted_entities)[i].name]

----------------------------------------------------------------------------
(* Claims on timeouts, the local backend and rejected inputs *)

\* C23: a timeout of a remote attempt is a retryable failure: after a timed-out
\* attempt the call is attempted again, unless 4 attempts have been made.
C23_TimeoutIsRetried ==
    \A i \in DOMAIN attempts :
       attempts[i].kind = "request_error"
          => \/ i < Len(attempts)
             \/ r_pc = "calling"
             \/ i = 4

\* what the code does: a timed-out attempt is the last one, and the call raises
\* the RuntimeError made from it
C23_TimeoutEndsTheCall ==
    \A i \in DOMAIN attempts :
       attempts[i].kind = "request_error"
          => /\ i = Len(attempts)
             /\ r_pc = "raised"
             /\ r_result.type = "RuntimeError"

\* the key of the dict each response model of the extractors expects
ExpectedKey(model) ==
    IF model = "ExtractedEntities" THEN "extracted_entities"
    ELSE IF model = "ExtractedEdges" THEN "extracted_edges"
    ELSE IF model = "MissedEntities" THEN "missed_entities"
    ELSE "duplicates"

ExpectedShapes ==
    {"ExtractedEntities", "ExtractedEdges", "MissedEntities", "DuplicateEntities"}

\* C24: NumaClient.generate_response never raises; for each expected result shape
\* it returns a dict of that shape, and when the local extraction fails internally
\* it returns the empty result of the requested shape.
C24_LocalBackendNeverFails ==
    l_pc = "returned"
       => /\ ~l_result.raised
          /\ l_model \in ExpectedShapes
                => /\ l_result.key = ExpectedKey(l_model)
                   /\ l_fault /= "none" => Len(l_result.items) = 0

\* a fault outside Numa.fit, answered by the empty list of edges
C24_Witness ==
    /\ l_pc = "returned"
    /\ l_fault = "template"
    /\ l_model = "ExtractedEdges"
    /\ l_result = Dict("extracted_edges", <<>>)

\* no fault: the missed-entities answer carries the items of the completion
C24_WitnessAnswer ==
    /\ l_pc = "returned"
    /\ l_fault = "none"
    /\ l_model = "MissedEntities"
    /\ l_result.key = "missed_entities"
    /\ Len(l_result.items) = 2

\* the episode types of the claim
ClaimedEpisodeTypes ==
    {"message", "text", "json", "conversation"}

\* the last add_episode call of the service had an episode type outside the set
BadTypeCall ==
    /\ k_args /= None
    /\ k_args.episode_type \notin ClaimedEpisodeTypes

\* the add_episode command had fewer than 3 arguments
ShortCommand ==
    /\ h_out.cmd = "add_episode"
    /\ h_out.nargs < 3

\* C25: input errors are rejected before any effect: add_episode with an episode
\* type outside {message, text, json, conversation}, and the add_episode command
\* with fewer than 3 arguments, end in an error without any backend call and
\* leave the store unchanged.
C25_InputErrorsHaveNoEffect ==
    /\ BadTypeCall
          => /\ k_pc = "idle"
             /\ k_last = "raised"
             /\ Stores = k_before
             /\ \A u \in DOMAIN k_batch : k_batch[u] /= k_calls
    /\ ShortCommand
          => /\ s_pc = "exit"
             /\ h_out.printed
             /\ h_out.keys = {"error"}
             /\ h_out.exit = 1
             /\ s_calls = <<>>
             /\ response = None

\* a call with a bad type after a call that stored an episode and its entities
C25_Witness ==
    /\ BadTypeCall
    /\ k_calls = 2
    /\ k_last = "raised"
    /\ DOMAIN k_entities /= {}
    /\ Stores = k_before

\* the command with two arguments has printed its error
C25_WitnessCommand ==
    /\ ShortCommand
    /\ h_out.nargs = 2
    /\ h_out.printed

----------------------------------------------------------------------------
(* Claims on the fallback embedders *)

\* C26: without a loaded model, embedding the same text twice, in the same run or
\* in two independent runs, returns identical vectors, each of length 384 and of
\* unit norm, for RealEmbeddingService._generate_mock_embeddings and EionEmbedder.
C26_FallbackEmbeddingsAreStable ==
    /\ \A r1 \in m_out, r2 \in m_out :
          (r1.embedder = r2.embedder /\ r1.text = r2.text) => r1.vector = r2.vector
    /\ \A r \in m_out :
          /\ r.vector.length = 384
          /\ r.vector.unit

\* what holds: within one process the same text gets the same vector from either
\* embedder, EionEmbedder's vectors are the same in every process, and the mock
\* vectors have length 384 and norm 1
C26_StableWithinOneProcess ==
    /\ \A r1 \in m_out, r2 \in m_out :
          (r1.embedder = r2.embedder /\ r1.text = r2.text
              /\ (r1.proc = r2.proc \/ r1.embedder = "EionEmbedder"))
             => r1.vector = r2.vector
    /\ \A r \in m_out :
          r.embedder = "RealEmbeddingService"
             => (r.vector.length = 384 /\ r.vector.unit)

\* the part of C26 on the mock embedder across processes, which fails: the seed
\* of randn is hash(text), which differs from one process to the next
C26_MockStableAcrossProcesses ==
    \A r1 \in m_out, r2 \in m_out :
       (r1.embedder = "RealEmbeddingService" /\ r2.embedder = "RealEmbeddingService"
           /\ r1.text = r2.text)
          => r1.vector = r2.vector

----------------------------------------------------------------------------
(* Claims on the end-to-end example *)

NodeNamed(name) ==
    \E i \in DOMAIN w_nodes : w_nodes[i].name = name

EdgeBetween(a, b, types) ==
    \E e \in DOMAIN w_edges, i \in DOMAIN w_nodes, j \in DOMAIN w_nodes :
       /\ w_nodes[i].name = a
       /\ w_nodes[j].name = b
       /\ w_edges[e].relation_type \in types
       /\ {w_edges[e].source_node_uuid, w_edges[e].target_node_uuid}
             = {w_nodes[i].uuid, w_nodes[j].uuid}

\* C27: ingesting "John Doe works for ACME Corporation and manages the data
\* processing system." through the local backend yields an entity named John Doe,
\* an entity named ACME Corporation, and an edge of type works_at or manages
\* between the two.
C27_JohnDoeExample ==
    (w_pc = "done" /\ w_text = JohnDoeText)
       => /\ NodeNamed(<<"John", "Doe">>)
          /\ NodeNamed(<<"ACME", "Corporation">>)
          /\ EdgeBetween(<<"John", "Doe">>, <<"ACME", "Corporation">>,
                         {"works_at", "manages"})

\* what the example yields: John Doe and Corporation (and the capitalised words
\* of the template), and no edge, the relation's target ACME being no entity
C27_WhatTheExampleYields ==
    (w_pc = "done" /\ w_text = JohnDoeText)
       => /\ NodeNamed(<<"John", "Doe">>)
          /\ NodeNamed(<<"Corporation">>)
          /\ ~NodeNamed(<<"ACME", "Corporation">>)
          /\ ~NodeNamed(<<"ACME">>)
          /\ w_edges = <<>>

\* no text gives an entity whose name holds a word in capitals only
C27_NoNameInCapitals ==
    \A i \in DOMAIN w_nodes :
       \A k \in DOMAIN w_nodes[i].name : w_nodes[i].name[k] /= "ACME"

----------------------------------------------------------------------------
(* Claims on the order and the prompts of the reflexion loop's requests *)

\* the last missed-entities request was answered by an empty list
EmptyReflectAnswered ==
    /\ CountKind(requests, "missed_entities") > 0
    /\ custom_prompt = <<>>

\* C28: once a missed-entities answer is an empty list the loop is done: no
\* further extracted-entities or missed-entities request is sent for the episode.
C28_NoRequestAfterEmptyReflect ==
    [][EmptyReflectAnswered
          => /\ CountKind(requests', "extracted_entities")
                   = CountKind(requests, "extracted_entities")
             /\ CountKind(requests', "missed_entities")
                   = CountKind(requests, "missed_entities")]_vars

\* the first missed-entities answer was empty and the call went on to its end
C28_Witness ==
    /\ EmptyReflectAnswered
    /\ x_pc = "done"
    /\ CountKind(requests, "extracted_entities") = 1
    /\ CountKind(requests, "missed_entities") = 1

\* the extracted-entities and missed-entities requests, in the order sent
LoopRequests ==
    SelectSeq(requests, LAMBDA r : r.kind \in {"extracted_entities", "missed_entities"})

\* C29: the requests of one extract_nodes call follow Extract, Reflect, Extract,
\* ...: every extracted-entities request after the first is immediately preceded by
\* a missed-entities request (two Extract requests are never sent back to back).
C29_ExtractFollowsReflect ==
    \A i \in DOMAIN LoopRequests :
       (i > 1 /\ LoopRequests[i].kind = "extracted_entities")
          => LoopRequests[i - 1].kind = "missed_entities"

\* what holds: the alternation up to the extracted-entities request of the pass
\* numbered MAX_REFLEXION_ITERATIONS - 1, after which no reflexion is done; the
\* one more pass the loop test allows sends an Extract right after an Extract
C29_AlternationWhileReflexionDue ==
    \A i \in DOMAIN LoopRequests :
       (i > 1 /\ LoopRequests[i].kind = "extracted_entities"
              /\ LoopRequests[i].iteration < MAX_REFLEXION_ITERATIONS)
          => LoopRequests[i - 1].kind = "missed_entities"

\* the missed-entities requests sent before request i
ReflectsBefore(i) ==
    {j \in 1..(i - 1) : requests[j].kind = "missed_entities"}

\* C30: every extracted-entities request after the first carries the instruction
\* listing the names of the preceding missed-entities answer; the first request
\* carries no such instruction.
C30_ExtractPromptListsMissedEntities ==
    \A i \in DOMAIN requests :
       requests[i].kind = "extracted_entities"
          => IF ReflectsBefore(i) = {}
             THEN requests[i].custom_prompt = <<>>
             ELSE requests[i].custom_prompt = requests[MaxOf(ReflectsBefore(i))].answer

\* what the code does: context['custom_prompt'] is '' in every request, the
\* variable custom_prompt holding the names without ever reaching a prompt
C30_NoPromptCarriesTheInstruction ==
    \A i \in DOMAIN requests :
       requests[i].kind = "extracted_entities" => requests[i].custom_prompt = <<>>

----------------------------------------------------------------------------
(* Claims on the order of the requests of one episode *)

\* C31: an extracted-edges request is the last request of the episode (so there is
\* at most one, it follows every extracted-entities and missed-entities request,
\* and no missed-entities request follows it), and an episode whose extract_nodes
\* returned at least 2 nodes has sent one when extract_edges returns
C31_OneEdgesRequestAfterEntities ==
    /\ \A i \in DOMAIN requests :
          requests[i].kind = "extracted_edges" => i = Len(requests)
    /\ (x_pc = "done" /\ Len(extracted_nodes) >= 2)
          => /\ CountKind(requests, "extracted_edges") = 1
             /\ requests[Len(requests)].kind = "extracted_edges"

C31_Witness ==
    /\ x_pc = "done"
    /\ Len(extracted_nodes) >= 2
    /\ CountKind(requests, "missed_entities") >= 1
    /\ CountKind(requests, "extracted_entities") >= 2
    /\ requests[Len(requests)].kind = "extracted_edges"

----------------------------------------------------------------------------
(* Claims on the writes of one episode *)

\* the place of a statement in the order episode, entities, edges, mention links
ClaimedRank(s) ==
    IF s.stmt = "CreateEpisode" THEN 0
    ELSE IF s.stmt = "CreateEntity" THEN 1
    ELSE IF s.stmt = "CreateRelation" THEN 2
    ELSE 3

\* C32: the statements _save_episode_to_neo4j has still to run are in the order
\* Episode node, all Entity nodes, all relations, all MENTIONED_IN links
C32_EpisodeEntitiesEdgesMentions ==
    k_pc = "save"
       => \A i, j \in DOMAIN k_call.pending :
             i < j => ClaimedRank(k_call.pending[i]) <= ClaimedRank(k_call.pending[j])

\* what the code does: the Episode node first, the relations last, and in between
\* each Entity node directly followed by its own MENTIONED_IN link
C32_MentionFollowsItsEntity ==
    k_pc = "save"
       => LET p == k_call.pending
          IN \A i \in DOMAIN p :
                /\ p[i].stmt = "CreateEpisode" => i = 1
                /\ p[i].stmt = "CreateRelation"
                      => \A j \in DOMAIN p : j > i => p[j].stmt = "CreateRelation"
                /\ (p[i].stmt = "CreateEntity")
                      => /\ i < Len(p)
                         /\ p[i + 1].stmt = "CreateMentionedIn"
                         /\ p[i + 1].source = p[i].uuid

----------------------------------------------------------------------------
(* Claims on _clean_input *)

\* zero-width and invisible characters
Invisible(c) ==
    c \in zero_width

\* control characters: C0, DEL and C1
Control(c) ==
    c < 32 \/ (c >= 127 /\ c <= 159)

Removable(c) ==
    Invisible(c) \/ (Control(c) /\ c \notin {10, 13, 9})

NotRemovable(c) ==
    ~Removable(c)

\* C33: the cleaned string holds no zero-width character and no control character
\* other than newline, carriage return and tab (DEL and the C1 controls included),
\* keeps every other character in order, and cleaning it again changes nothing
C33_NoControlNoInvisibleIdempotent ==
    /\ z_pc \in {"cleaned", "twice"}
          => /\ \A i \in DOMAIN z_content : ~Removable(z_content[i])
             /\ z_content = SelectSeq(z_input, NotRemovable)
    /\ z_pc = "twice" => z_again = z_content

\* what the code does: the five zero-width characters and the C0 controls other
\* than newline, carriage return and tab are removed (and what UTF-8 cannot
\* encode), every other character is kept in order, and cleaning is idempotent
RemovedByCode(c) ==
    c \in zero_width \/ (c < 32 /\ c \notin {10, 13, 9}) \/ ~Utf8Encodable(c)

KeptByCode(c) ==
    ~RemovedByCode(c)

C33_C0AndZeroWidthRemovedIdempotent ==
    /\ z_pc \in {"cleaned", "twice"}
          => /\ \A i \in DOMAIN z_content : KeptByCode(z_content[i])
             /\ z_content = SelectSeq(z_input, KeptByCode)
    /\ z_pc = "twice" => z_again = z_content

----------------------------------------------------------------------------
(* Claims on the template NumaClient selects *)

\* C34: generate_response renders the extract_nodes template for ExtractedEntities,
\* extract_edges for ExtractedEdges, reflexion for MissedEntities and deduplicate
\* for DuplicateEntities, so that no two of the four shapes use the same template
C34_EachShapeItsOwnTemplate ==
    l_pc = "returned"
       => /\ l_model = "ExtractedEntities" => l_template = "extract_nodes"
          /\ l_model = "ExtractedEdges" => l_template = "extract_edges"
          /\ l_model = "MissedEntities" => l_template = "reflexion"
          /\ l_model = "DuplicateEntities" => l_template = "deduplicate"

\* what the code does: the three shapes whose name holds "entities" all use the
\* extract_nodes template, and only ExtractedEdges has a template of its own
C34_EntitiesShapesShareExtractNodes ==
    l_pc = "returned"
       => /\ l_model \in {"ExtractedEntities", "MissedEntities", "DuplicateEntities"}
                => l_template = "extract_nodes"
          /\ l_model = "ExtractedEdges" => l_template = "extract_edges"
          /\ l_template \notin {"reflexion", "deduplicate"}

----------------------------------------------------------------------------
(* Claims on the source kinds of an episode *)

ExtractPrecedesReflect ==
    /\ \A i \in DOMAIN requests :
          requests[i].kind = "missed_entities"
             => \E j \in 1..(i - 1) : requests[j].kind = "extracted_entities"
    /\ x_pc \in {"nodes_returned", "done"}
          => CountKind(requests, "extracted_entities") >= 1

\* C35: whatever the source kind of the episode (message, text, json or
\* conversation), extract_nodes sends an extracted-entities request, and sends it
\* before its first missed-entities request
C35_EverySourceKindSendsExtract ==
    source \in EpisodeType => ExtractPrecedesReflect

\* what the code does: only the kinds message, text and json have a branch that
\* sends the request
C35_MessageTextJsonSendExtract ==
    source \in {"message", "text", "json"} => ExtractPrecedesReflect

----------------------------------------------------------------------------
(* Claims on the response of extract_knowledge *)

\* the remote extraction raised after it had built its nodes
RemoteFailedAfterNodes ==
    /\ last_remote /= None
    /\ remote /= None
    /\ remote.nodes /= <<>>

\* C36: the nodes and the edges of a response are those of one backend: after a
\* fallback both are the local extractor's, whatever nodes the remote extraction
\* had built before it failed; without a fallback both are the remote
\* extractor's; a failed response has neither
C36_NodesAndEdgesFromOneBackend ==
    s_pc = "done"
       => IF local_result /= None
          THEN /\ response.success
               /\ response.extracted_nodes = local_result.nodes
               /\ response.extracted_edges = local_result.edges
          ELSE IF response.success
          THEN /\ last_remote = None
               /\ remote.phase = "Done"
               /\ response.extracted_nodes = remote.nodes
               /\ response.extracted_edges = remote.edges
          ELSE /\ response.extracted_nodes = <<>>
               /\ response.extracted_edges = <<>>

\* the remote extraction failed at its extracted-edges request with two nodes
\* built, and the response holds what the local extractor found: nothing
C36_Witness ==
    /\ s_pc = "done"
    /\ RemoteFailedAfterNodes
    /\ last_remote.kind = "Edges"
    /\ Len(remote.nodes) = 2
    /\ local_result /= None
    /\ response.success
    /\ response.extracted_nodes = <<>>
    /\ response.extracted_edges = <<>>

\* the local backend produced no result: the service has no local client, or
\* _extract_with_numa raised
NoLocalResult ==
    /\ local_result = None
    /\ numa_client = "None" \/ ConversionRaises(request)

\* C37: extract_knowledge ends in a response, never in an exception: success=true
\* with no error, or success=false with no node, no edge and an error message;
\* success=false only when the local client is missing or its extraction raised
C37_AlwaysAResponse ==
    /\ s_pc \in {"ready", "remote", "fallback", "except", "done"}
    /\ s_pc = "done"
          => /\ response /= None
             /\ IF response.success
                THEN response.error = "None"
                ELSE /\ response.extracted_nodes = <<>>
                     /\ response.extracted_edges = <<>>
                     /\ response.error \notin {"None", ""}
                     /\ NoLocalResult

\* the local client exists, its extraction raised on a previous episode's
\* timestamp, and the call returned success=false with that error
C37_Witness ==
    /\ s_pc = "done"
    /\ numa_client = "NumaClient"
    /\ ~response.success
    /\ response.error = "ValueError"
    /\ response.extracted_nodes = <<>>

----------------------------------------------------------------------------
(* Claims on the prompt cache *)

\* the response of the latest add of a key that was not evicted since
LatestOf(key) ==
    IF \E e \in b_latest : e.key = key
    THEN (CHOOSE e \in b_latest : e.key = key).response
    ELSE None

\* C38: the cache never holds more than cache_size entries; an add that evicts
\* evicts one entry, the one whose key was inserted before every other key of the
\* cache; a get returns the response of the latest add of its prompt when that
\* entry was not evicted since (and None otherwise)
C38_BoundedFifoLatest ==
    /\ Len(b_cache) <= CacheSize
    /\ (b_out.op = "add" /\ b_out.evicted /= {})
          => /\ Cardinality(b_out.evicted) = 1
             /\ b_out.size_before >= CacheSize
             /\ \A e \in b_out.before, f \in b_out.before :
                   (e.key \in b_out.evicted /\ f.key \notin b_out.evicted)
                      => e.time < f.time
    /\ b_out.op = "get" => b_out.result = LatestOf(b_out.key)

\* a full cache of two entries took a third key, the earliest key went, and a get
\* of the key added last returned its response
C38_Witness ==
    /\ b_out.op = "get"
    /\ b_out.result /= None
    /\ Len(b_cache) = CacheSize
    /\ b_out.key = b_cache[Len(b_cache)].key
    /\ \E e \in b_ins : e.time > CacheSize
    /\ \A e \in b_ins : e.time > 1

\* an add has just evicted the earliest key
C38_WitnessEviction ==
    /\ b_out.op = "add"
    /\ b_out.evicted /= {}
    /\ b_out.key \notin b_out.evicted
    /\ Cardinality(b_out.before) = CacheSize

\* C39: a call on the caching pipeline returns what the pipeline without the cache
\* returns for the same prompt, and it does not run the model when the cache held
\* the prompt's entry
C39_CacheIsTransparent ==
    p_out.op = "generate_response"
       => /\ p_out.names = p_out.uncached
          /\ p_out.held => p_out.hit

\* a prompt whose entry was evicted and computed again, then asked once more and
\* answered from the cache with a non-empty result
C39_Witness ==
    /\ p_out.op = "generate_response"
    /\ p_out.hit
    /\ p_out.held
    /\ p_out.names /= <<>>
    /\ p_runs = MaxRuns
    /\ Len(p_cache) = CacheSize

----------------------------------------------------------------------------
(* Claims on the group isolation of the extraction context *)

\* the stored episodes of the group of the episode being added, itself left out
SameGroupOthers ==
    {k_episodes[u] : u \in {v \in DOMAIN k_episodes :
                               /\ k_episodes[v].group_id = k_call.episode.group_id
                               /\ v /= k_call.episode.uuid}}

\* C40: while add_episode runs, the previous episodes it hands to the extractor
\* are stored episodes of the new episode's group other than the new episode, and
\* they are all of those (up to the last ten), so that episodes of other groups
\* in the store change nothing; every entity and edge created carries the group
\* id of the episode
C40_ContextOfOwnGroupOnly ==
    k_pc \in {"extract_nodes", "extract_edges", "save"}
       => /\ \A i \in DOMAIN k_call.previous :
                /\ k_call.previous[i].group_id = k_call.episode.group_id
                /\ k_call.previous[i].uuid /= k_call.episode.uuid
          /\ {k_call.previous[i] : i \in DOMAIN k_call.previous} = SameGroupOthers
          /\ \A i \in DOMAIN k_call.nodes :
                k_call.nodes[i].group_id = k_call.episode.group_id
          /\ \A i \in DOMAIN k_call.edges :
                k_call.edges[i].group_id = k_call.episode.group_id

\* the store holds an episode of another group, the context of the new episode is
\* empty, and two entities and an edge were created for it
C40_Witness ==
    /\ k_pc = "save"
    /\ Cardinality(DOMAIN k_episodes) = 2
    /\ k_call.previous = <<>>
    /\ Len(k_call.nodes) = 2
    /\ Len(k_call.edges) = 1

\* the store holds an earlier episode of the same group, which is the context
C40_WitnessSameGroup ==
    /\ k_pc = "save"
    /\ Len(k_call.previous) = 1
    /\ Len(k_call.nodes) = 2

====
